---------------------------- MODULE Spec2Model ----------------------------
(***************************************************************************)
(* A model of shell-ai (shai): the suggestion generator's bounded fan-out  *)
(* (internal/suggestions, generateSuggestions), the interactive session    *)
(* loop in its two front ends (the plain line-based Run and the promptui   *)
(* Run), the context buffer and the response extractor (internal/parser).  *)
(* SpecGen is one call of generateSuggestions, Spec a whole session;       *)
(* SpecContext and SpecParse call package parser directly, as its tests    *)
(* do: a ContextManager under any sequence of calls, and ParseLLMResponse  *)
(* on responses put together from texts, inline spans and code blocks.     *)
(* SpecMain is the process from main's first statement to its exit, with   *)
(* LoadConfig, the client and a session in between; SpecConfig and         *)
(* SpecClient call LoadConfig and GenerateCompletion directly.  SpecGenFair *)
(* is a round under a fair scheduler, SpecLock a round with the body of a  *)
(* goroutine taken statement by statement.  SpecShell and SpecHistory call *)
(* GenerateShellCommand and writeToShellHistory directly.                  *)
(*                                                                         *)
(* Texts (prompts, commands, command output) are sequences of one-         *)
(* character strings, so that TrimSpace, HasPrefix and the buffer's        *)
(* eviction are computed, not assumed.  An LLM response is a sequence of   *)
(* tokens: the backtick, "\n", " ", the tag "json", the text "x",         *)
(* and one token per JSON object ("{ls}" is the text {"command": "ls"}).   *)
(***************************************************************************)
EXTENDS Integers, Sequences, FiniteSets, TLC

VARIABLES
    frontEnd,       \* which Run is linked in: "plain" or "promptui"
    cfg,            \* *config.Config (in a session: the fields Run and the client read)
    pc,             \* position of Run / generateSuggestions
    prompt,         \* Run's prompt
    options,        \* Run's options (the menu of the current iteration)
    selection,      \* Run's selection
    input,          \* the text of the last answer Run read from the user
    err,            \* the error of Run's last read from the user
    userCommand,    \* Run's userCommand
    ret,            \* what Run returned, NotReturned while it runs
    rounds,         \* calls of generateSuggestions so far
    i,              \* generateSuggestions' loop counter
    sem,            \* number of slots taken in the semaphore channel
    wg,             \* the WaitGroup's counter
    task,           \* the goroutines of the current round
    suggestions,    \* generateSuggestions' shared result list
    errors,         \* generateSuggestions' shared error list
    genRet,         \* what generateSuggestions returned
    tokenBuffer,    \* ContextManager.tokenBuffer
    history,        \* the commands appended to the shell history file
    executed,       \* the commands handed to sh -c, in order
    shell,          \* $SHELL
    cwd,            \* the process's working directory
    calls,          \* the (prompt, context) pairs sent to the LLM in this round
    menus,          \* how many menus Run has presented
    output,         \* the output of the last cmd.CombinedOutput()
    rawResponse,    \* the text a direct caller hands to ParseLLMResponse
    parseRet,       \* what ParseLLMResponse returned to that caller
    lastCall,       \* the last call a direct caller made: function, argument, what it found, result
    requests,       \* HTTP requests handed to http.Client.Do so far
    httpReply,      \* what the provider answers to a direct caller of GenerateCompletion
    completion,     \* what GenerateCompletion returned to that caller
    messages,       \* the messages of the request a direct caller of GenerateShellCommand had built
    env,            \* the process environment, as os.Getenv reads it
    configFile,     \* the config file: missing, unreadable as JSON, or its map
    CLI,            \* main's CLI after kong.Parse: Prompt, Debug, Ctx
    exitCode,       \* the process's exit status, Running while it runs
    client,         \* main's client: NoClient until llm.NewClient made it
    stderr,         \* the messages main and LoadConfig printed
    mu,             \* generateSuggestions' mutex: the goroutine holding it, or Unlocked
    goroutines      \* the goroutines of a round taken statement by statement

genVars == <<i, sem, wg, task, suggestions, errors, genRet, calls, requests>>
runVars == <<prompt, options, selection, input, err, userCommand, ret, menus>>
envVars == <<shell, tokenBuffer, history, executed, cwd, output>>
pkgVars == <<rawResponse, parseRet, lastCall, httpReply, completion, messages>>
mainVars == <<env, configFile, CLI, exitCode, client, stderr>>
lockVars == <<mu, goroutines>>
vars == <<frontEnd, cfg, pc, rounds, genVars, runVars, envVars, pkgVars, mainVars, lockVars>>

-----------------------------------------------------------------------------
(* Bounds of the model *)

\* largest cfg.SuggestionCount of a single generation round
MaxCount == 5
\* largest cfg.SuggestionCount of a whole session
MaxSessionCount == 2
\* largest cfg.SuggestionCount of a round under the fair scheduler
MaxFairCount == 3
\* generation rounds of one session
MaxRounds == 2
\* capacity of the context buffer (parser.MaxContextTokens, scaled down)
MaxContextTokens == 2
\* longest chunk a direct caller hands to AddChunk
MaxChunk == 3
\* most parts (texts, inline spans, code blocks) of a response handed to ParseLLMResponse
MaxParts == 3

-----------------------------------------------------------------------------
(* Texts *)

\* An error value is the chain of its messages; nil is the empty chain.
NoError == <<>>
ParseError == <<"parse">>
EOF == <<"EOF">>
Interrupt == <<"^C">>
\* the value of ret and genRet while the function has not returned
NotReturned == <<"running">>

Min(a, b) == IF a < b THEN a ELSE b

Empty == <<>>
CmdLs == <<"l", "s">>
CmdPwd == <<"p", "w", "d">>

IsSpace(c) == c \in {" ", "\n"}

RECURSIVE TrimLeft(_)
TrimLeft(s) == IF s # <<>> /\ IsSpace(Head(s)) THEN TrimLeft(Tail(s)) ELSE s

RECURSIVE TrimRight(_)
TrimRight(s) ==
    IF s # <<>> /\ IsSpace(s[Len(s)]) THEN TrimRight(SubSeq(s, 1, Len(s) - 1)) ELSE s

\* strings.TrimSpace
TrimSpace(s) == TrimRight(TrimLeft(s))

\* s[len(s)-n:]
Trailing(s, n) == SubSeq(s, Len(s) - n + 1, Len(s))

\* strings.HasPrefix
HasPrefix(s, p) == Len(s) >= Len(p) /\ SubSeq(s, 1, Len(p)) = p

-----------------------------------------------------------------------------
(* internal/parser: the response extractor *)

\* the backtick character (the lexer accepts none inside a string)
Backtick == "BT"

FenceAt(s, k) ==
    k >= 1 /\ k + 2 <= Len(s) /\ s[k] = Backtick /\ s[k + 1] = Backtick /\ s[k + 2] = Backtick

\* first position after the opening fence and its optional json tag
AfterTag(s, k) == IF k + 3 <= Len(s) /\ s[k + 3] = "json" THEN k + 4 ELSE k + 3

\* positions of a newline-plus-fence that can close a block whose content starts at c
Closers(s, c) == {e \in c..Len(s) : s[e] = "\n" /\ FenceAt(s, e + 1)}

\* the newlines that can end the \s*\n after the fence opened at k
Openers(s, k) ==
    {n \in AfterTag(s, k)..Len(s) :
        /\ s[n] = "\n"
        /\ \A m \in AfterTag(s, k)..(n - 1) : IsSpace(s[m])
        /\ Closers(s, n + 1) # {}}

SetMax(S) == CHOOSE x \in S : \A y \in S : y <= x
SetMin(S) == CHOOSE x \in S : \A y \in S : x <= y

\* starts of a match of codeBlockRegex
BlockStarts(s) == {k \in 1..Len(s) : FenceAt(s, k) /\ Openers(s, k) # {}}

\* group 1 of the leftmost match: \s* is greedy, the content is lazy
FirstBlock(s) ==
    LET k == SetMin(BlockStarts(s))
        n == SetMax(Openers(s, k))
        e == SetMin(Closers(s, n + 1))
    IN  SubSeq(s, n + 1, e - 1)

\* starts of a match of inlineCodeRegex
InlineStarts(s) == {k \in 1..Len(s) : s[k] = Backtick /\ \E n \in (k + 1)..Len(s) : s[n] = Backtick}

FirstInline(s) ==
    LET k == SetMin(InlineStarts(s))
        n == SetMin({m \in (k + 1)..Len(s) : s[m] = Backtick})
    IN  SubSeq(s, k + 1, n - 1)

\* the JSON objects of the model and the Command field each decodes to
JSONObjects == {"{ls}", "{pwd}", "{}"}
CommandOf(tok) == IF tok = "{ls}" THEN CmdLs ELSE IF tok = "{pwd}" THEN CmdPwd ELSE Empty

\* a JSON object written out: "{" and "}" around the characters of its
\* command string, which can be backticks, blanks and letters
IsObject(t) ==
    /\ Len(t) >= 2
    /\ t[1] = "{"
    /\ t[Len(t)] = "}"
    /\ \A k \in 2..(Len(t) - 1) : t[k] \in {Backtick, " ", "x"}

\* json.Unmarshal into CommandResponse: one JSON value, white space around it allowed
Unmarshal(jsonContent) ==
    LET t == TrimSpace(jsonContent)
    IN  IF Len(t) = 1 /\ t[1] \in JSONObjects
        THEN [err |-> NoError, command |-> CommandOf(t[1])]
        ELSE IF IsObject(t)
        THEN [err |-> NoError, command |-> SubSeq(t, 2, Len(t) - 1)]
        ELSE [err |-> ParseError, command |-> Empty]

\* the extractor looking for an inline span before it looks for a code block
extractJSONFromMarkdown_InlineFirst(markdown) ==
    IF InlineStarts(markdown) # {} THEN TrimSpace(FirstInline(markdown))
    ELSE IF BlockStarts(markdown) # {} THEN TrimSpace(FirstBlock(markdown))
    ELSE <<>>

extractJSONFromMarkdown(markdown) ==
    IF BlockStarts(markdown) # {} THEN TrimSpace(FirstBlock(markdown))
    ELSE IF InlineStarts(markdown) # {} THEN TrimSpace(FirstInline(markdown))
    ELSE <<>>

\* ParseLLMResponse refusing an empty command
ParseLLMResponse_RejectEmpty(response) ==
    LET extracted == extractJSONFromMarkdown(response)
        jsonContent == IF extracted = <<>> THEN response ELSE extracted
        r == Unmarshal(jsonContent)
    IN  IF r.err # NoError \/ r.command = Empty THEN [err |-> ParseError, command |-> Empty]
        ELSE r

ParseLLMResponse(response) ==
    LET extracted == extractJSONFromMarkdown(response)
        jsonContent == IF extracted = <<>> THEN response ELSE extracted
        r == Unmarshal(jsonContent)
    IN  IF r.err # NoError THEN [err |-> r.err, command |-> Empty] ELSE r

-----------------------------------------------------------------------------
(* internal/parser: the context buffer *)

\* tokenBuffer of NewContextManager(): empty, with room for MaxContextTokens
NewContextManager == <<>>

\* AddToken that never removes the first token
AddToken_NoEvict(buf, token) == Append(buf, token)

AddToken(buf, token) ==
    IF Len(buf) >= MaxContextTokens THEN Append(Tail(buf), token) ELSE Append(buf, token)

\* Flush that leaves the newest token in the buffer
Flush_KeepNewest == Trailing(tokenBuffer, Min(1, Len(tokenBuffer)))

\* tokenBuffer after Flush()
Flush == <<>>

\* the loop of AddChunk: AddToken for each character, in order
RECURSIVE AddTokens(_, _)
AddTokens(buf, chunk) ==
    IF chunk = <<>> THEN buf ELSE AddTokens(AddToken(buf, Head(chunk)), Tail(chunk))

\* AddChunk that does not flush first
AddChunk_NoFlush(chunk) == AddTokens(tokenBuffer, chunk)

\* tokenBuffer after AddChunk(chunk)
AddChunk(chunk) == AddTokens(Flush, chunk)

GetContext(buf) == IF Len(buf) = 0 THEN Empty ELSE buf

-----------------------------------------------------------------------------
(* internal/llm: the client, and what a call of it can give back *)

\* the raw completions of the model: bare JSON, JSON in an inline code span,
\* a second command, text that is no JSON, and a JSON object without command
Responses ==
    { <<"{ls}">>, <<Backtick, "{ls}", Backtick>>, <<"{pwd}">>, <<"x">>, <<"{}">> }

\* the provider keys GenerateCompletion's switch has a case for
Providers == {<<"openai">>, <<"groq">>}

\* http.StatusOK, and two statuses a provider answers a failed request with
StatusOK == 200
FailureStatuses == {401, 500}

\* fmt.Errorf("unsupported API provider: %s", c.config.APIProvider)
UnsupportedProvider(provider) == <<"unsupported API provider">> \o provider

\* fmt.Errorf("API request failed with status %d: %s", resp.StatusCode, string(body))
StatusError(status, text) == <<"API request failed with status", ToString(status), text>>

\* errors.New("no completions returned from API")
NoCompletions == <<"no completions returned from API">>

\* the error of c.client.Do or io.ReadAll (the 60 s timeout among them), and
\* the error of json.Unmarshal on a body that is no JSON
TransportError == <<"context deadline exceeded">>
DecodeError == <<"invalid character">>

\* A response body is its text, whether that text is JSON, and the contents of
\* the choices of the envelope it decodes to.
TextBody(text) == [text |-> text, json |-> FALSE, choices |-> <<>>]
Envelope(choices) == [text |-> "{choices}", json |-> TRUE, choices |-> choices]

\* what the provider answers: the error of the round trip, else status and body
HTTPReply(status, body) == [err |-> NoError, status |-> status, body |-> body]
NoReply == [err |-> TransportError, status |-> 0, body |-> TextBody("")]

\* llm.NewClient: never fails, and keeps the pointer to cfg
NewClient == [err |-> NoError, client |-> "Client"]
NoClient == "nil"

\* GenerateCompletion answering every provider key as it answers "groq"
GenerateCompletion_AnyProvider(config, reply) ==
    IF reply.err # NoError
    THEN [err |-> reply.err, response |-> Empty, sent |-> 1]
    ELSE IF reply.status # StatusOK
    THEN [err |-> StatusError(reply.status, reply.body.text), response |-> Empty, sent |-> 1]
    ELSE IF ~reply.body.json
    THEN [err |-> DecodeError, response |-> Empty, sent |-> 1]
    ELSE IF Len(reply.body.choices) = 0
    THEN [err |-> NoCompletions, response |-> Empty, sent |-> 1]
    ELSE [err |-> NoError, response |-> reply.body.choices[1], sent |-> 1]

\* GenerateCompletion taking a 200 envelope without choices for an empty completion
GenerateCompletion_EmptyOnNoChoice(config, reply) ==
    IF config.APIProvider \notin Providers
    THEN [err |-> UnsupportedProvider(config.APIProvider), response |-> Empty, sent |-> 0]
    ELSE IF reply.err # NoError
    THEN [err |-> reply.err, response |-> Empty, sent |-> 1]
    ELSE IF reply.status # StatusOK
    THEN [err |-> StatusError(reply.status, reply.body.text), response |-> Empty, sent |-> 1]
    ELSE IF ~reply.body.json
    THEN [err |-> DecodeError, response |-> Empty, sent |-> 1]
    ELSE IF Len(reply.body.choices) = 0
    THEN [err |-> NoError, response |-> Empty, sent |-> 1]
    ELSE [err |-> NoError, response |-> reply.body.choices[1], sent |-> 1]

\* (c *Client) GenerateCompletion: (response, err), and whether a request went
\* to c.client.Do.  reply is what the provider answers if it is asked.
GenerateCompletion(config, reply) ==
    IF config.APIProvider \notin Providers
    THEN [err |-> UnsupportedProvider(config.APIProvider), response |-> Empty, sent |-> 0]
    ELSE IF reply.err # NoError
    THEN [err |-> reply.err, response |-> Empty, sent |-> 1]
    ELSE IF reply.status # StatusOK
    THEN [err |-> StatusError(reply.status, reply.body.text), response |-> Empty, sent |-> 1]
    ELSE IF ~reply.body.json
    THEN [err |-> DecodeError, response |-> Empty, sent |-> 1]
    ELSE IF Len(reply.body.choices) = 0
    THEN [err |-> NoCompletions, response |-> Empty, sent |-> 1]
    ELSE [err |-> NoError, response |-> reply.body.choices[1], sent |-> 1]

\* the provider's answers to the tasks of a round: a failed request, or one
\* choice holding a completion
APIError == StatusError(500, "busy")
Replies ==
    {HTTPReply(500, TextBody("busy"))}
        \cup {HTTPReply(StatusOK, Envelope(<<r>>)) : r \in Responses}

\* (c *Client) GenerateShellCommand: the completions of the request built
\* from the prompt and the context, one for each answer of the provider
GenerateShellCommand(userPrompt, context) ==
    {GenerateCompletion(cfg, reply) : reply \in Replies}

-----------------------------------------------------------------------------
(* internal/suggestions: generateSuggestions *)

WorkerLimit == 4

\* maxWorkers without the limit of four
maxWorkers_Uncapped == cfg.SuggestionCount

maxWorkers == Min(WorkerLimit, cfg.SuggestionCount)

\* The goroutines of a round run the same closure and capture nothing of
\* their own, so a round's goroutines are told apart only by how far they
\* are: task counts them by position.
\*   started: holds a slot, has not recorded its outcome yet
\*   release: outcome recorded, the deferred <-sem is next
\*   wgdone:  slot given back, the deferred wg.Done() is next
\*   done:    finished
NoTasks == [started |-> 0, release |-> 0, wgdone |-> 0, done |-> 0]

Move(tasks, from, to) == [tasks EXCEPT ![from] = @ - 1, ![to] = @ + 1]

RECURSIVE dedupe(_, _, _)
dedupe(slice, seen, result) ==
    IF slice = <<>> THEN result
    ELSE IF Head(slice) \in seen THEN dedupe(Tail(slice), seen, result)
    ELSE dedupe(Tail(slice), seen \cup {Head(slice)}, Append(result, Head(slice)))

\* deduplicate that drops nothing
deduplicate_KeepAll(slice) == slice

deduplicate(slice) == dedupe(slice, {}, <<>>)

\* fmt.Errorf("failed to generate suggestions: %v", err)
WrapError(e) == <<"failed to generate suggestions">> \o e

\* the return statement failing on any recorded error
GenerateResult_FailOnAnyError(sugg, errs) ==
    IF Len(errs) > 0
    THEN [err |-> WrapError(errs[1]), list |-> <<>>]
    ELSE [err |-> NoError, list |-> deduplicate(sugg)]

\* the return statement failing whenever there is no suggestion
GenerateResult_FailOnNoSuggestion(sugg, errs) ==
    IF Len(sugg) = 0
    THEN [err |-> WrapError(IF Len(errs) > 0 THEN errs[1] ELSE <<"no suggestions">>),
          list |-> <<>>]
    ELSE [err |-> NoError, list |-> deduplicate(sugg)]

\* the return statement of generateSuggestions, after wg.Wait()
GenerateResult(sugg, errs) ==
    IF Len(sugg) = 0 /\ Len(errs) > 0
    THEN [err |-> WrapError(errs[1]), list |-> <<>>]
    ELSE [err |-> NoError, list |-> deduplicate(sugg)]

\* Run starts an iteration (its locals are fresh) and enters generateSuggestions:
\* the lists, maxWorkers and the semaphore are made
generateSuggestions ==
    /\ pc = "CallGenerate"
    /\ rounds < MaxRounds
    /\ rounds' = rounds + 1
    /\ pc' = "Spawning"
    /\ i' = 0
    /\ sem' = 0
    /\ wg' = 0
    /\ suggestions' = <<>>
    /\ errors' = <<>>
    /\ task' = NoTasks
    /\ genRet' = NotReturned
    /\ calls' = {}
    /\ options' = <<>>
    /\ selection' = Empty
    /\ input' = Empty
    /\ err' = NoError
    /\ userCommand' = Empty
    /\ UNCHANGED <<lockVars, mainVars, pkgVars, requests, frontEnd, cfg, prompt, ret, menus, envVars>>

\* one iteration of the for loop: wg.Add(1), sem <- struct{}{}, go func()
Spawn ==
    /\ pc = "Spawning"
    /\ i < cfg.SuggestionCount
    /\ sem < maxWorkers
    /\ wg' = wg + 1
    /\ sem' = sem + 1
    /\ task' = [task EXCEPT !.started = @ + 1]
    /\ i' = i + 1
    /\ UNCHANGED <<lockVars, mainVars, pkgVars, requests, frontEnd, cfg, pc, rounds, suggestions, errors, genRet, calls, runVars, envVars>>

\* a goroutine's body emptying the context buffer it has read
Worker_ConsumesContext ==
    /\ pc = "Spawning"
    /\ task.started > 0
    /\ LET context == IF cfg.ContextMode THEN GetContext(tokenBuffer) ELSE Empty
       IN  \E r \in GenerateShellCommand(prompt, context) :
             LET parsed == ParseLLMResponse(r.response)
             IN  /\ calls' = calls \cup {[prompt |-> prompt, context |-> context]}
                 /\ requests' = requests + r.sent
                 /\ errors' = IF r.err # NoError THEN Append(errors, r.err)
                              ELSE IF parsed.err # NoError THEN Append(errors, parsed.err)
                              ELSE errors
                 /\ suggestions' = IF r.err = NoError /\ parsed.err = NoError
                                        /\ parsed.command # Empty
                                   THEN Append(suggestions, parsed.command)
                                   ELSE suggestions
    /\ task' = Move(task, "started", "release")
    /\ tokenBuffer' = Flush
    /\ UNCHANGED <<lockVars, mainVars, pkgVars, frontEnd, cfg, pc, rounds, i, sem, wg, genRet, runVars,
                   shell, history, executed, cwd, output>>

\* a goroutine's body: read the context, call the LLM, parse, record under mu
Worker ==
    /\ pc = "Spawning"
    /\ task.started > 0
    /\ LET context == IF cfg.ContextMode THEN GetContext(tokenBuffer) ELSE Empty
       IN  \E r \in GenerateShellCommand(prompt, context) :
             LET parsed == ParseLLMResponse(r.response)
             IN  /\ calls' = calls \cup {[prompt |-> prompt, context |-> context]}
                 /\ requests' = requests + r.sent
                 /\ errors' = IF r.err # NoError THEN Append(errors, r.err)
                              ELSE IF parsed.err # NoError THEN Append(errors, parsed.err)
                              ELSE errors
                 /\ suggestions' = IF r.err = NoError /\ parsed.err = NoError
                                        /\ parsed.command # Empty
                                   THEN Append(suggestions, parsed.command)
                                   ELSE suggestions
    /\ task' = Move(task, "started", "release")
    /\ UNCHANGED <<lockVars, mainVars, pkgVars, frontEnd, cfg, pc, rounds, i, sem, wg, genRet, runVars, envVars>>

\* a goroutine ending without its deferred <-sem: the slot stays taken
Release_KeepSlot ==
    /\ pc = "Spawning"
    /\ task.release > 0
    /\ sem' = sem
    /\ task' = Move(task, "release", "wgdone")
    /\ UNCHANGED <<lockVars, mainVars, pkgVars, requests, frontEnd, cfg, pc, rounds, i, wg, suggestions, errors, genRet, calls, runVars, envVars>>

\* a goroutine's deferred func() { <-sem }()
Release ==
    /\ pc = "Spawning"
    /\ task.release > 0
    /\ sem' = sem - 1
    /\ task' = Move(task, "release", "wgdone")
    /\ UNCHANGED <<lockVars, mainVars, pkgVars, requests, frontEnd, cfg, pc, rounds, i, wg, suggestions, errors, genRet, calls, runVars, envVars>>

\* a goroutine's deferred wg.Done()
Done ==
    /\ pc = "Spawning"
    /\ task.wgdone > 0
    /\ wg' = wg - 1
    /\ task' = Move(task, "wgdone", "done")
    /\ UNCHANGED <<lockVars, mainVars, pkgVars, requests, frontEnd, cfg, pc, rounds, i, sem, suggestions, errors, genRet, calls, runVars, envVars>>

\* generateSuggestions deciding the result without wg.Wait()
GenerateReturn_NoWait ==
    /\ pc = "Spawning"
    /\ i = cfg.SuggestionCount
    /\ genRet' = GenerateResult(suggestions, errors)
    /\ pc' = "Generated"
    /\ UNCHANGED <<lockVars, mainVars, pkgVars, requests, frontEnd, cfg, rounds, i, sem, wg, task, suggestions, errors, calls, runVars, envVars>>

\* the loop is over, wg.Wait() returns, the result is decided
GenerateReturn ==
    /\ pc = "Spawning"
    /\ i = cfg.SuggestionCount
    /\ wg = 0
    /\ genRet' = GenerateResult(suggestions, errors)
    /\ pc' = "Generated"
    /\ UNCHANGED <<lockVars, mainVars, pkgVars, requests, frontEnd, cfg, rounds, i, sem, wg, task, suggestions, errors, calls, runVars, envVars>>

HomeDir == <<"h">>

\* sync.Mutex's zero value
Unlocked == 0

\* no direct caller of package llm or parser has called anything yet
NotCalled == [err |-> NotReturned, response |-> Empty, sent |-> 0]
NotParsed == [err |-> NotReturned, command |-> Empty]
NoCall == [fn |-> "none", arg |-> Empty, before |-> Empty, result |-> Empty]
NoMessages == [system |-> Empty, user |-> Empty]

PromptA == <<"a">>
PromptB == <<"b">>


-----------------------------------------------------------------------------
(* internal/suggestions: Run, the session loop, in its two front ends *)

OptGenSuggestions == <<"Generate new suggestions">>
OptDismiss == <<"Dismiss">>
OptNewCommand == <<"Enter a new command">>

CmdCd == <<"c", "d", " ", "d">>
CmdVi == <<"v", "i", " ", "f">>

TextEditors ==
    << <<"v", "i">>, <<"v", "i", "m">>, <<"e", "m", "a", "c", "s">>, <<"n", "a", "n", "o">>,
       <<"e", "d">>, <<"m", "i", "c", "r", "o">>, <<"j", "o", "e">>, <<"n", "v", "i", "m">> >>

startsWithAny(s, prefixes) == \E k \in 1..Len(prefixes) : HasPrefix(s, prefixes[k])

\* strings.TrimPrefix
TrimPrefix(s, p) == IF HasPrefix(s, p) THEN SubSeq(s, Len(p) + 1, Len(s)) ELSE s

\* what the user can type at a free-text prompt, at a confirmation, and what
\* a command can print
FreeTexts == { <<" ">>, PromptB, <<" ", "b", " ">> }
ConfirmTexts == { Empty, CmdCd, CmdVi, <<"l", "s", " ">> }
Outputs == { Empty, <<"1", "2", "3">> }

\* the menu of the plain Run: the candidates and three system options
PlainOptions(list) == list \o <<OptGenSuggestions, OptNewCommand, OptDismiss>>

\* the menu of the promptui Run: the candidates and Dismiss
PromptuiOptions(list) == list \o <<OptDismiss>>

Options(fe, list) == IF fe = "plain" THEN PlainOptions(list) ELSE PromptuiOptions(list)

\* Run going on to the execution without the history write
AfterConfirm_SkipWrite == "Executing"

\* where Run goes once userCommand is final
AfterConfirm == IF ~cfg.SkipHistory THEN "WritingHistory" ELSE "Executing"

\* where Run goes once a candidate is selected
AfterCommand == IF ~cfg.SkipConfirm THEN "Confirming" ELSE AfterConfirm

\* the plain switch without its case OptGenSuggestions
PlainSwitch_NoRegenerate(sel) ==
    IF sel = OptDismiss THEN "Returned"
    ELSE IF sel = OptNewCommand THEN "EnteringNewPrompt"
    ELSE AfterCommand

\* the switch on the selection in the plain Run
PlainSwitch(sel) ==
    IF sel = OptDismiss THEN "Returned"
    ELSE IF sel = OptNewCommand THEN "EnteringNewPrompt"
    ELSE IF sel = OptGenSuggestions THEN "CallGenerate"
    ELSE AfterCommand

\* the promptui switch without its case OptDismiss
PromptuiSwitch_NoDismiss(sel) == AfterCommand

\* the switch on the selection in the promptui Run
PromptuiSwitch(sel) == IF sel = OptDismiss THEN "Returned" ELSE AfterCommand

\* fmt.Sscanf(input, "%d", &index): the number the digits at the start of the
\* line stand for, whatever follows them; 0, the zero value of index, when
\* the line does not start with a digit and the scan fails
Digits == 0..9
IsDigitChar(c) == \E n \in Digits : c = ToString(n)
DigitValue(c) == CHOOSE n \in Digits : c = ToString(n)

RECURSIVE ScanInt(_, _)
ScanInt(line, acc) ==
    IF line = <<>> \/ ~IsDigitChar(Head(line)) THEN acc
    ELSE ScanInt(Tail(line), 10 * acc + DigitValue(Head(line)))

Sscanf(line) == IF line # <<>> /\ IsDigitChar(Head(line)) THEN ScanInt(line, 0) ELSE 0

\* the lines the user can type at the plain menu: a word, a number followed
\* by a letter, the numbers of the menu, and the numbers next to them
SelectionLines ==
    { <<"x">>, <<"1", "x">> } \cup { <<ToString(n)>> : n \in 0..(Len(options) + 1) }

\* the plain confirmation taking the line whatever it is
PlainConfirm_AlwaysInput(command, line) == TrimSpace(line)

\* the confirmation of the plain Run: an empty line keeps the command
PlainConfirm(command, line) == IF TrimSpace(line) # Empty THEN TrimSpace(line) ELSE command

\* the promptui confirmation dropping what the user typed
PromptuiConfirm_KeepCommand(command, confirmedCommand) == command

\* the confirmation of the promptui Run: the edited text is the command
PromptuiConfirm(command, confirmedCommand) == confirmedCommand

\* what a read from the user can fail with
ReadErrors(fe) == IF fe = "plain" THEN {EOF} ELSE {Interrupt, EOF}

\* Run returning every error of a prompt to its caller
ReadFailure_Propagate(fe, e) == e

\* what Run returns when a read failed with e: promptui's interrupt is a
\* clean exit
ReadFailure(fe, e) == IF fe = "promptui" /\ e = Interrupt THEN NoError ELSE e

\* Run going on to the menu whatever generateSuggestions returned
AfterGenerate_IgnoreError ==
    /\ pc = "Generated"
    /\ options' = Options(frontEnd, genRet.list)
    /\ menus' = menus + 1
    /\ pc' = "Selecting"
    /\ ret' = ret
    /\ i' = 0
    /\ sem' = 0
    /\ wg' = 0
    /\ task' = NoTasks
    /\ suggestions' = <<>>
    /\ errors' = <<>>
    /\ calls' = {}
    /\ genRet' = NotReturned
    /\ UNCHANGED <<lockVars, mainVars, pkgVars, requests, frontEnd, cfg, rounds, envVars, prompt, selection, input, err, userCommand>>

\* Run after generateSuggestions returned (its frame is gone): give up on an
\* error, else build the menu
AfterGenerate ==
    /\ pc = "Generated"
    /\ IF genRet.err # NoError
       THEN /\ ret' = genRet.err
            /\ pc' = "Returned"
            /\ UNCHANGED <<options, menus>>
       ELSE /\ options' = Options(frontEnd, genRet.list)
            /\ menus' = menus + 1
            /\ pc' = "Selecting"
            /\ ret' = ret
    /\ i' = 0
    /\ sem' = 0
    /\ wg' = 0
    /\ task' = NoTasks
    /\ suggestions' = <<>>
    /\ errors' = <<>>
    /\ calls' = {}
    /\ genRet' = NotReturned
    /\ UNCHANGED <<lockVars, mainVars, pkgVars, requests, frontEnd, cfg, rounds, envVars, prompt, selection, input, err, userCommand>>

\* a read from the user fails, at any of Run's prompts
ReadFails ==
    /\ pc \in {"Selecting", "EnteringNewPrompt", "Confirming", "Prompting"}
    /\ \E e \in ReadErrors(frontEnd) :
         /\ err' = e
         /\ ret' = ReadFailure(frontEnd, e)
    /\ pc' = "Returned"
    /\ UNCHANGED <<lockVars, mainVars, pkgVars, frontEnd, cfg, rounds, genVars, envVars, prompt, options, selection, input,
                   userCommand, menus>>

\* the plain Run handles no signal: an interrupt at one of its prompts ends
\* the process, and Run never returns
Sigint ==
    /\ pc \in {"Selecting", "EnteringNewPrompt", "Confirming", "Prompting"}
    /\ frontEnd = "plain"
    /\ pc' = "Killed"
    /\ UNCHANGED <<lockVars, mainVars, pkgVars, frontEnd, cfg, rounds, genVars, runVars, envVars>>

\* the plain Run reads the selection and switches on it
PlainSelect ==
    /\ pc = "Selecting"
    /\ frontEnd = "plain"
    /\ \E line \in SelectionLines :
         LET index == Sscanf(TrimSpace(line))
             valid == index >= 1 /\ index <= Len(options)
             sel == IF valid THEN options[index] ELSE Empty
         IN  /\ input' = TrimSpace(line)
             /\ selection' = sel
             /\ pc' = IF valid THEN PlainSwitch(sel) ELSE "CallGenerate"
             /\ ret' = IF valid /\ PlainSwitch(sel) = "Returned" THEN NoError ELSE ret
             /\ userCommand' = IF valid /\ PlainSwitch(sel) = AfterCommand THEN sel ELSE userCommand
    /\ err' = NoError
    /\ UNCHANGED <<lockVars, mainVars, pkgVars, frontEnd, cfg, rounds, genVars, envVars, prompt, options, menus>>

\* the promptui Run lets the user pick an item and switches on it
PromptuiSelect ==
    /\ pc = "Selecting"
    /\ frontEnd = "promptui"
    /\ \E k \in 1..Len(options) :
         LET sel == options[k]
         IN  /\ selection' = sel
             /\ pc' = PromptuiSwitch(sel)
             /\ ret' = IF PromptuiSwitch(sel) = "Returned" THEN NoError ELSE ret
             /\ userCommand' = IF PromptuiSwitch(sel) = AfterCommand THEN sel ELSE userCommand
    /\ err' = NoError
    /\ UNCHANGED <<lockVars, mainVars, pkgVars, frontEnd, cfg, rounds, genVars, envVars, prompt, options, input, menus>>

\* case OptNewCommand reading the line and keeping the old prompt
EnterNewPrompt_KeepPrompt ==
    /\ pc = "EnteringNewPrompt"
    /\ \E line \in FreeTexts : input' = line
    /\ err' = NoError
    /\ pc' = "CallGenerate"
    /\ UNCHANGED <<lockVars, mainVars, pkgVars, frontEnd, cfg, rounds, genVars, envVars, prompt, options, selection,
                   userCommand, ret, menus>>

\* case OptNewCommand of the plain Run: the line read is the new prompt
EnterNewPrompt ==
    /\ pc = "EnteringNewPrompt"
    /\ \E line \in FreeTexts :
         /\ input' = line
         /\ prompt' = TrimSpace(line)
    /\ err' = NoError
    /\ pc' = "CallGenerate"
    /\ UNCHANGED <<lockVars, mainVars, pkgVars, frontEnd, cfg, rounds, genVars, envVars, options, selection, userCommand,
                   ret, menus>>

\* the confirmation prompt of either Run
Confirm ==
    /\ pc = "Confirming"
    /\ IF frontEnd = "plain"
       THEN \E line \in ConfirmTexts :
              /\ input' = TrimSpace(line)
              /\ userCommand' = PlainConfirm(userCommand, line)
       ELSE \E text \in ConfirmTexts \cup {userCommand} :
              /\ input' = text
              /\ userCommand' = PromptuiConfirm(userCommand, text)
    /\ err' = NoError
    /\ pc' = AfterConfirm
    /\ UNCHANGED <<lockVars, mainVars, pkgVars, frontEnd, cfg, rounds, genVars, envVars, prompt, options, selection, ret,
                   menus>>

\* strings.Contains
Contains(s, sub) == \E k \in 0..(Len(s) - Len(sub)) : SubSeq(s, k + 1, k + Len(sub)) = sub

Zsh == <<"z", "s", "h">>
Bash == <<"b", "a", "s", "h">>
Csh == <<"c", "s", "h">>
Tcsh == <<"t", "c", "s", "h">>
Ksh == <<"k", "s", "h">>
Fish == <<"f", "i", "s", "h">>
Dash == <<"d", "a", "s", "h">>

\* time.Now().Unix(), as it is printed in an entry
Timestamp == <<"<ts>">>

\* the error of writeToShellHistory: SHELL unset or not one of the known shells
\* (the history file itself is taken to be writable)
HistoryError(sh) ==
    IF sh = Empty THEN <<"SHELL environment variable not set">>
    ELSE IF \E known \in {Zsh, Bash, Csh, Tcsh, Ksh, Fish} : Contains(sh, known) THEN NoError
    ELSE <<"unsupported shell">>

\* the entry format the switch on the shell selects: the first case that matches
HistoryFormat(sh) ==
    IF Contains(sh, Zsh) THEN "zsh"
    ELSE IF Contains(sh, Bash) THEN "line"
    ELSE IF Contains(sh, Csh) \/ Contains(sh, Tcsh) THEN "line"
    ELSE IF Contains(sh, Ksh) THEN "line"
    ELSE IF Contains(sh, Fish) THEN "fish"
    ELSE "unsupported"

\* the entry written for command: the arguments of Sprintf are chosen by a
\* second test of the shell (zsh, else fish, else the command alone)
HistoryEntry(sh, command) ==
    IF Contains(sh, Zsh)
    THEN <<":", " ">> \o Timestamp \o <<":", "0", ";">> \o command \o <<"\n">>
    ELSE IF Contains(sh, Fish)
    THEN IF HistoryFormat(sh) = "fish"
         THEN <<"-", " ", "c", "m", "d", ":", " ">> \o command
                  \o <<"\n", " ", " ", "w", "h", "e", "n", ":", " ">> \o Timestamp \o <<"\n">>
         ELSE command \o <<"\n", "%!(EXTRA int64=">> \o Timestamp \o <<")">>
    ELSE command \o <<"\n">>

\* the history file after writeToShellHistory(command)
writeToShellHistory(file, sh, command) ==
    IF HistoryError(sh) = NoError THEN Append(file, HistoryEntry(sh, command)) ELSE file

\* what os.OpenFile and file.WriteString can fail with
FileErrors == {NoError, <<"permission denied">>}

\* the errors writeToShellHistory can return for the shell sh
HistoryErrors(sh) == IF HistoryError(sh) # NoError THEN {HistoryError(sh)} ELSE FileErrors

\* the history write: a failure is printed as a warning and Run goes on
WriteHistory ==
    /\ pc = "WritingHistory"
    /\ \E e \in HistoryErrors(shell) :
         /\ err' = e
         /\ history' = IF e = NoError THEN writeToShellHistory(history, shell, userCommand)
                       ELSE history
    /\ pc' = "Executing"
    /\ UNCHANGED <<lockVars, mainVars, pkgVars, frontEnd, cfg, rounds, genVars, shell, tokenBuffer, executed, cwd,
                   output, prompt, options, selection, input, userCommand, ret, menus>>

\* filepath.Clean on the paths of the model
Clean(path) == IF path = Empty THEN <<".">> ELSE path

\* os.Chdir changing the directory before it fails
Chdir_BeforeFailing(dir, path, e) == IF path # <<".">> THEN path ELSE dir

\* the directory os.Chdir(path) leaves the process in
Chdir(dir, path, e) == IF e = NoError /\ path # <<".">> THEN path ELSE dir

\* default mode returning the command's error
DefaultModeReturn_Fatal(e) == e

\* what Run returns in default mode after cmd.Run() gave e: nil, whatever e is
DefaultModeReturn(e) == NoError

\* the error of cmd.Run() and cmd.CombinedOutput(): nil, or the exit status
ExitErrors == {NoError, <<"exit status 1">>}
ChdirErrors == {NoError, <<"no such file or directory">>}

\* context mode going on only after a command that succeeded
AfterExecute_Fatal(e) == IF e # NoError THEN "Returned" ELSE "Prompting"

\* where Run goes in context mode after the command gave e: the error is
\* printed and the next prompt is asked for
AfterExecute(e) == "Prompting"

\* the command is executed: attached to the terminal and Run returns (context
\* mode off), or by its shape and Run asks for the next prompt (context mode on)
Execute ==
    /\ pc = "Executing"
    /\ IF ~cfg.ContextMode
       THEN /\ executed' = Append(executed, userCommand)
            /\ err' \in ExitErrors
            /\ ret' = DefaultModeReturn(err')
            /\ pc' = "Returned"
            /\ UNCHANGED <<tokenBuffer, cwd, output>>
       ELSE /\ IF startsWithAny(userCommand, TextEditors)
               THEN /\ executed' = Append(executed, userCommand)
                    /\ err' \in ExitErrors
                    /\ UNCHANGED <<tokenBuffer, cwd, output>>
               ELSE IF HasPrefix(userCommand, <<"c", "d">>)
               THEN /\ err' \in ChdirErrors
                    /\ cwd' = Chdir(cwd, Clean(TrimSpace(TrimPrefix(userCommand, <<"c", "d">>))),
                                    err')
                    /\ UNCHANGED <<tokenBuffer, executed, output>>
               ELSE /\ executed' = Append(executed, userCommand)
                    /\ err' \in ExitErrors
                    /\ output' \in Outputs
                    /\ tokenBuffer' = AddChunk(output')
                    /\ cwd' = cwd
            /\ pc' = AfterExecute(err')
            /\ ret' = ret
    /\ UNCHANGED <<lockVars, mainVars, pkgVars, frontEnd, cfg, rounds, genVars, shell, history, prompt, options,
                   selection, input, userCommand, menus>>

\* the next prompt read without promptui's Validate
NextPrompt_AcceptBlank ==
    /\ pc = "Prompting"
    /\ \E line \in FreeTexts :
         /\ input' = line
         /\ prompt' = TrimSpace(line)
    /\ err' = NoError
    /\ pc' = "CallGenerate"
    /\ UNCHANGED <<lockVars, mainVars, pkgVars, frontEnd, cfg, rounds, genVars, envVars, options, selection, userCommand,
                   ret, menus>>

\* context mode: the next prompt is read; promptui accepts no blank one
NextPrompt ==
    /\ pc = "Prompting"
    /\ \E line \in FreeTexts :
         /\ frontEnd = "promptui" => TrimSpace(line) # Empty
         /\ input' = line
         /\ prompt' = TrimSpace(line)
    /\ err' = NoError
    /\ pc' = "CallGenerate"
    /\ UNCHANGED <<lockVars, mainVars, pkgVars, frontEnd, cfg, rounds, genVars, envVars, options, selection, userCommand,
                   ret, menus>>

Groq == <<"groq">>
OpenAI == <<"openai">>

\* the fields of *config.Config that Run and the client read, the provider
\* being the default one
Configs(counts) ==
    [SuggestionCount : counts, ContextMode : BOOLEAN, SkipConfirm : BOOLEAN, SkipHistory : BOOLEAN,
     APIProvider : {Groq}]

\* main's CLI after kong.Parse
NoCommandLine == [Prompt |-> <<>>, Debug |-> FALSE, Ctx |-> FALSE]

\* the empty environment, and the config file that does not exist
NoEnv == <<>>
NotExist == <<"no such file or directory">>
NoFile == [err |-> NotExist, map |-> <<>>]

\* Run's locals, generateSuggestions' frame and the process's surroundings
\* before anything ran
InitRun ==
    /\ options = <<>>
    /\ selection = Empty
    /\ input = Empty
    /\ err = NoError
    /\ userCommand = Empty
    /\ ret = NotReturned
    /\ rounds = 0
    /\ menus = 0
    /\ i = 0
    /\ sem = 0
    /\ wg = 0
    /\ task = NoTasks
    /\ suggestions = <<>>
    /\ errors = <<>>
    /\ genRet = NotReturned
    /\ calls = {}
    /\ history = <<>>
    /\ executed = <<>>
    /\ cwd = HomeDir
    /\ output = Empty
    /\ requests = 0
    /\ exitCode = 0
    /\ stderr = <<>>
    /\ mu = Unlocked

\* Run is called with a client and a prompt, main not being modelled, the
\* goroutines of a round being taken as in Worker
InitCommon ==
    /\ InitRun
    /\ goroutines = <<>>
    /\ pc = "CallGenerate"
    /\ prompt = PromptA
    /\ client = NewClient.client
    /\ CLI = NoCommandLine
    /\ env = NoEnv
    /\ configFile = NoFile

\* no direct caller of a package
InitPackage ==
    /\ rawResponse = Empty
    /\ parseRet = NotParsed
    /\ lastCall = NoCall
    /\ httpReply = NoReply
    /\ completion = NotCalled
    /\ messages = NoMessages

\* one call of generateSuggestions, for every count up to MaxCount
InitGen ==
    /\ InitCommon
    /\ InitPackage
    /\ frontEnd = "plain"
    /\ cfg \in {c \in Configs(0..MaxCount) : ~c.SkipConfirm /\ ~c.SkipHistory}
    /\ shell = Bash
    /\ tokenBuffer \in {Empty, AddChunk(CmdLs)}

NextGen ==
    \/ generateSuggestions
    \/ Spawn
    \/ Worker
    \/ Release
    \/ Done
    \/ GenerateReturn

SpecGen == InitGen /\ [][NextGen]_vars

\* one call of generateSuggestions under a scheduler that lets every goroutine
\* that can take a step take it in the end (a call of the LLM returns: the
\* client's timeout is 60 s), for the counts up to MaxFairCount and for the
\* first count above the limit of workers, where the loop has to wait for a slot
FairCounts == (0..MaxFairCount) \cup {WorkerLimit + 1}

InitGenFair ==
    /\ InitCommon
    /\ InitPackage
    /\ frontEnd = "plain"
    /\ cfg \in {c \in Configs(FairCounts) :
                   /\ ~c.SkipConfirm
                   /\ ~c.SkipHistory
                   /\ c.SuggestionCount > MaxFairCount => ~c.ContextMode}
    /\ shell = Bash
    /\ tokenBuffer = Empty

SpecGenFair == InitGenFair /\ [][NextGen]_vars /\ WF_vars(NextGen)


\* a session of either front end
Init ==
    /\ InitCommon
    /\ InitPackage
    /\ frontEnd \in {"plain", "promptui"}
    /\ cfg \in Configs(0..MaxSessionCount)
    /\ shell \in {Bash, Dash}
    /\ tokenBuffer = Empty

Next ==
    \/ NextGen
    \/ AfterGenerate
    \/ ReadFails
    \/ Sigint
    \/ PlainSelect
    \/ PromptuiSelect
    \/ EnterNewPrompt
    \/ Confirm
    \/ WriteHistory
    \/ Execute
    \/ NextPrompt

Spec == Init /\ [][Next]_vars

-----------------------------------------------------------------------------
(* internal/config: LoadConfig, from the defaults, the file and the environment *)

\* A raw value (of a key of the file, of an environment variable) is a text:
\* a sequence of characters where the code parses it, one token otherwise.

\* the value of a sequence of decimal digits
IsDigit(c) == \E n \in Digits : ToString(n) = c
RECURSIVE Decimal(_)
Decimal(s) ==
    IF s = <<>> THEN 0
    ELSE 10 * Decimal(SubSeq(s, 1, Len(s) - 1))
             + (CHOOSE n \in Digits : ToString(n) = s[Len(s)])

\* strconv.Atoi: an optional sign, then digits and nothing else
Atoi(val) ==
    LET signed == val # <<>> /\ val[1] \in {"+", "-"}
        digits == IF signed THEN Tail(val) ELSE val
    IN  IF digits = <<>> \/ \E k \in 1..Len(digits) : ~IsDigit(digits[k])
        THEN [ok |-> FALSE, value |-> 0]
        ELSE [ok |-> TRUE,
              value |-> IF signed /\ val[1] = "-" THEN 0 - Decimal(digits) ELSE Decimal(digits)]

\* strconv.ParseBool: the twelve spellings it accepts
ParseBool(val) ==
    IF val \in {<<"1">>, <<"t">>, <<"T">>, <<"TRUE">>, <<"true">>, <<"True">>}
    THEN [ok |-> TRUE, value |-> TRUE]
    ELSE IF val \in {<<"0">>, <<"f">>, <<"F">>, <<"FALSE">>, <<"false">>, <<"False">>}
    THEN [ok |-> TRUE, value |-> FALSE]
    ELSE [ok |-> FALSE, value |-> FALSE]

\* strconv.ParseFloat on the decimal spellings with at most two digits after
\* the point, the value counted in hundredths (0.05 is 5)
ParseFloat(val) ==
    LET points == {k \in 1..Len(val) : val[k] = "."}
        point == IF points = {} THEN Len(val) + 1 ELSE SetMin(points)
        whole == SubSeq(val, 1, point - 1)
        frac == SubSeq(val, point + 1, Len(val))
        digits == whole \o frac
    IN  IF digits = <<>> \/ Len(frac) > 2 \/ \E k \in 1..Len(digits) : ~IsDigit(digits[k])
        THEN [ok |-> FALSE, value |-> 0]
        ELSE [ok |-> TRUE,
              value |-> 100 * Decimal(whole)
                            + (IF Len(frac) = 1 THEN 10 * Decimal(frac) ELSE Decimal(frac))]

\* the keys of the file and of the environment, each with the field of Config
\* it sets and the type of that field
Settings ==
    << [key |-> "OPENAI_API_KEY",        field |-> "OpenAIAPIKey",       kind |-> "string"],
       [key |-> "OPENAI_MODEL",          field |-> "OpenAIModel",        kind |-> "string"],
       [key |-> "OPENAI_MAX_TOKENS",     field |-> "OpenAIMaxTokens",    kind |-> "int"],
       [key |-> "OPENAI_API_BASE",       field |-> "OpenAIAPIBase",      kind |-> "string"],
       [key |-> "OPENAI_ORGANIZATION",   field |-> "OpenAIOrganization", kind |-> "string"],
       [key |-> "OPENAI_PROXY",          field |-> "OpenAIProxy",        kind |-> "string"],
       [key |-> "OPENAI_API_VERSION",    field |-> "OpenAIAPIVersion",   kind |-> "string"],
       [key |-> "GROQ_API_KEY",          field |-> "GroqAPIKey",         kind |-> "string"],
       [key |-> "GROQ_MODEL",            field |-> "GroqModel",          kind |-> "string"],
       [key |-> "SHAI_API_PROVIDER",     field |-> "APIProvider",        kind |-> "string"],
       [key |-> "SHAI_SUGGESTION_COUNT", field |-> "SuggestionCount",    kind |-> "int"],
       [key |-> "SHAI_SKIP_CONFIRM",     field |-> "SkipConfirm",        kind |-> "bool"],
       [key |-> "SHAI_SKIP_HISTORY",     field |-> "SkipHistory",        kind |-> "bool"],
       [key |-> "SHAI_TEMPERATURE",      field |-> "Temperature",        kind |-> "float"],
       [key |-> "DEBUG",                 field |-> "Debug",              kind |-> "bool"],
       [key |-> "CTX",                   field |-> "ContextMode",        kind |-> "bool"] >>

\* the config LoadConfig starts from: the defaults, and Go's zero values
DefaultConfig ==
    [OpenAIAPIKey |-> Empty, OpenAIModel |-> <<"gpt-3.5-turbo">>, OpenAIMaxTokens |-> 0,
     OpenAIAPIBase |-> Empty, OpenAIOrganization |-> Empty, OpenAIProxy |-> Empty,
     OpenAIAPIVersion |-> <<"2023-05-15">>, GroqAPIKey |-> Empty,
     GroqModel |-> <<"llama-3.3-70b-versatile">>, APIProvider |-> Groq, SuggestionCount |-> 3,
     SkipConfirm |-> FALSE, SkipHistory |-> FALSE, Temperature |-> 5, Debug |-> FALSE,
     ContextMode |-> FALSE]

\* what a raw value parses to for a field of a type
Parse(kind, val) ==
    CASE kind = "string" -> [ok |-> TRUE, value |-> val]
      [] kind = "int" -> Atoi(val)
      [] kind = "bool" -> ParseBool(val)
      [] kind = "float" -> ParseFloat(val)

\* one if-block of loadFromConfigFile or loadFromEnv: the field is assigned
\* when the value is there and parses
Apply(config, setting, there, val) ==
    IF there /\ Parse(setting.kind, val).ok
    THEN [config EXCEPT ![setting.field] = Parse(setting.kind, val).value]
    ELSE config

\* os.Getenv
Getenv(environ, key) == IF key \in DOMAIN environ THEN environ[key] ELSE Empty

\* json.Unmarshal's error on a file that is no JSON object of strings
ParseFileError == <<"error parsing config file", "invalid character">>

\* the if-blocks of loadFromConfigFile, from the k-th on: a key of the map is
\* applied when it is there, whatever its value
RECURSIVE ApplyFile(_, _, _)
ApplyFile(config, map, k) ==
    IF k > Len(Settings) THEN config
    ELSE ApplyFile(Apply(config, Settings[k], Settings[k].key \in DOMAIN map,
                         IF Settings[k].key \in DOMAIN map THEN map[Settings[k].key] ELSE Empty),
                   map, k + 1)

\* loadFromConfigFile: the error of os.ReadFile or of json.Unmarshal leaves
\* cfg as it is
loadFromConfigFile(config, file) ==
    IF file.err # NoError THEN [err |-> file.err, cfg |-> config]
    ELSE [err |-> NoError, cfg |-> ApplyFile(config, file.map, 1)]

\* the if-blocks of loadFromEnv, from the k-th on: a variable is applied when
\* its value is not empty
RECURSIVE ApplyEnv(_, _, _)
ApplyEnv(config, environ, k) ==
    IF k > Len(Settings) THEN config
    ELSE ApplyEnv(Apply(config, Settings[k], Getenv(environ, Settings[k].key) # Empty,
                        Getenv(environ, Settings[k].key)),
                  environ, k + 1)

\* loadFromEnv: it has no error to return
loadFromEnv(config, environ) == [err |-> NoError, cfg |-> ApplyEnv(config, environ, 1)]

\* fmt.Fprintf(os.Stderr, "Warning: Error reading config file: %v\n", err)
FileWarning(e) == <<"Warning: Error reading config file">> \o e

\* LoadConfig reading the file after the environment
LoadConfig_FileLast(file, environ) ==
    LET fromEnv == loadFromEnv(DefaultConfig, environ)
        fromFile == loadFromConfigFile(fromEnv.cfg, file)
        warnings == IF fromFile.err # NoError /\ fromFile.err # NotExist
                    THEN <<FileWarning(fromFile.err)>> ELSE <<>>
    IN  [err |-> NoError, cfg |-> fromFile.cfg, warnings |-> warnings]

\* LoadConfig returning the error of a file that is there and cannot be used
LoadConfig_FileErrorFatal(file, environ) ==
    LET fromFile == loadFromConfigFile(DefaultConfig, file)
        fromEnv == loadFromEnv(fromFile.cfg, environ)
    IN  IF fromFile.err # NoError /\ fromFile.err # NotExist
        THEN [err |-> fromFile.err, cfg |-> DefaultConfig, warnings |-> <<>>]
        ELSE [err |-> NoError, cfg |-> fromEnv.cfg, warnings |-> <<>>]

\* LoadConfig: the error of the file is a warning unless the file is missing,
\* and the environment is read in either case
LoadConfig(file, environ) ==
    LET fromFile == loadFromConfigFile(DefaultConfig, file)
        fromEnv == loadFromEnv(fromFile.cfg, environ)
        warnings == IF fromFile.err # NoError /\ fromFile.err # NotExist
                    THEN <<FileWarning(fromFile.err)>> ELSE <<>>
    IN  IF fromEnv.err # NoError
        THEN [err |-> <<"error processing environment variables">> \o fromEnv.err,
              cfg |-> DefaultConfig, warnings |-> warnings]
        ELSE [err |-> NoError, cfg |-> fromEnv.cfg, warnings |-> warnings]

-----------------------------------------------------------------------------
(* cmd/shai: main *)

\* strings.Join(promptArgs, " ")
RECURSIVE Join(_)
Join(words) ==
    IF words = <<>> THEN Empty
    ELSE IF Len(words) = 1 THEN words[1]
    ELSE words[1] \o <<" ">> \o Join(Tail(words))

\* os.Exit(code), after the message (if any) went to os.Stderr
Exit(code, message) ==
    /\ exitCode' = code
    /\ stderr' = IF message = <<>> THEN stderr ELSE Append(stderr, message)
    /\ pc' = "Exited"

\* main without the test of the two keys
MainCheckKeys_NoCheck ==
    /\ pc = "CheckKeys"
    /\ pc' = "NewClient"
    /\ UNCHANGED <<exitCode, stderr>>
    /\ UNCHANGED <<lockVars, env, configFile, CLI, client, pkgVars, frontEnd, cfg, rounds, genVars, runVars,
                   envVars>>

\* main testing for the prompt before anything else
MainLoadConfig_PromptFirst ==
    /\ pc = "LoadConfig"
    /\ IF Len(CLI.Prompt) = 0
       THEN /\ Exit(0, <<>>)
            /\ cfg' = cfg
       ELSE /\ cfg' = [LoadConfig(configFile, env).cfg EXCEPT !.Debug = @ \/ CLI.Debug,
                                                              !.ContextMode = @ \/ CLI.Ctx]
            /\ stderr' = stderr \o LoadConfig(configFile, env).warnings
            /\ pc' = "CheckKeys"
            /\ exitCode' = exitCode
    /\ UNCHANGED <<lockVars, env, configFile, CLI, client, pkgVars, frontEnd, rounds, genVars, runVars, envVars>>

\* main: cfg, err := config.LoadConfig(), then the two CLI flags
MainLoadConfig ==
    /\ pc = "LoadConfig"
    /\ LET loaded == LoadConfig(configFile, env)
       IN  IF loaded.err # NoError
           THEN /\ exitCode' = 1
                /\ stderr' = stderr \o loaded.warnings
                                  \o << <<"Error loading configuration">> \o loaded.err >>
                /\ pc' = "Exited"
                /\ cfg' = cfg
           ELSE /\ cfg' = [loaded.cfg EXCEPT !.Debug = @ \/ CLI.Debug,
                                             !.ContextMode = @ \/ CLI.Ctx]
                /\ stderr' = stderr \o loaded.warnings
                /\ pc' = "CheckKeys"
                /\ exitCode' = exitCode
    /\ UNCHANGED <<lockVars, env, configFile, CLI, client, pkgVars, frontEnd, rounds, genVars, runVars, envVars>>

\* main: neither key is set
MainCheckKeys ==
    /\ pc = "CheckKeys"
    /\ IF cfg.OpenAIAPIKey = Empty /\ cfg.GroqAPIKey = Empty
       THEN Exit(1, <<"Error: No API key found">>)
       ELSE /\ pc' = "NewClient"
            /\ UNCHANGED <<exitCode, stderr>>
    /\ UNCHANGED <<lockVars, env, configFile, CLI, client, pkgVars, frontEnd, cfg, rounds, genVars, runVars,
                   envVars>>

\* main: client, err := llm.NewClient(cfg)
MainNewClient ==
    /\ pc = "NewClient"
    /\ IF NewClient.err # NoError
       THEN /\ Exit(1, <<"Error creating LLM client">> \o NewClient.err)
            /\ client' = client
       ELSE /\ client' = NewClient.client
            /\ pc' = "CheckPrompt"
            /\ UNCHANGED <<exitCode, stderr>>
    /\ UNCHANGED <<lockVars, env, configFile, CLI, pkgVars, frontEnd, cfg, rounds, genVars, runVars, envVars>>

\* main: without a prompt the usage is printed; else Run is called
MainCheckPrompt ==
    /\ pc = "CheckPrompt"
    /\ IF Len(CLI.Prompt) = 0
       THEN /\ Exit(0, <<>>)
            /\ prompt' = prompt
       ELSE /\ prompt' = Join(CLI.Prompt)
            /\ pc' = "CallGenerate"
            /\ UNCHANGED <<exitCode, stderr>>
    /\ UNCHANGED <<lockVars, env, configFile, CLI, client, pkgVars, frontEnd, cfg, rounds, genVars, envVars,
                   options, selection, input, err, userCommand, ret, menus>>

\* main after Run returned: its error is printed and the status is 1, else
\* main returns
MainExit ==
    /\ pc = "Returned"
    /\ IF ret # NoError
       THEN Exit(1, <<"Error">> \o ret)
       ELSE Exit(0, <<>>)
    /\ UNCHANGED <<lockVars, env, configFile, CLI, client, pkgVars, frontEnd, cfg, rounds, genVars, runVars,
                   envVars>>

\* the function from the keys of a set of (key, value) pairs to the values
Map(pairs) == [k \in {q[1] : q \in pairs} |-> (CHOOSE q \in pairs : q[1] = k)[2]]

Key == <<"k">>
FileKey == <<"file-key">>
Azure == <<"azure">>

\* the config files main finds: one that is no JSON, one with a key
MalformedFile == [err |-> ParseFileError, map |-> <<>>]
FileWithKey ==
    [err |-> NoError,
     map |-> Map({<<"GROQ_API_KEY", FileKey>>, <<"SHAI_SUGGESTION_COUNT", <<"1">>>>})]

\* the count a process asks for in its environment
Count(n) == <<"SHAI_SUGGESTION_COUNT", <<ToString(n)>>>>

\* the surroundings main is started in, each a config file, an environment,
\* the values of --ctx and the front ends it is started with: nothing at all;
\* a key in the file only; a file that is no JSON, without and with a key in
\* the environment; a count of 0; the other provider; a provider that is not
\* supported, with a count of 1 and of 0; the key of the provider that is not
\* the selected one
FrontEnds == {"plain", "promptui"}
MainSetups ==
    { [file |-> NoFile, env |-> NoEnv, ctx |-> BOOLEAN, frontEnds |-> FrontEnds],
      [file |-> FileWithKey, env |-> NoEnv, ctx |-> BOOLEAN, frontEnds |-> {"promptui"}],
      [file |-> MalformedFile, env |-> NoEnv, ctx |-> BOOLEAN, frontEnds |-> FrontEnds],
      [file |-> MalformedFile, env |-> Map({<<"GROQ_API_KEY", Key>>, Count(1)}),
       ctx |-> {FALSE}, frontEnds |-> {"plain"}],
      [file |-> NoFile, env |-> Map({<<"GROQ_API_KEY", Key>>, Count(0)}),
       ctx |-> {FALSE}, frontEnds |-> FrontEnds],
      [file |-> FileWithKey,
       env |-> Map({<<"OPENAI_API_KEY", Key>>, <<"SHAI_API_PROVIDER", OpenAI>>, Count(0)}),
       ctx |-> {FALSE}, frontEnds |-> FrontEnds],
      [file |-> NoFile,
       env |-> Map({<<"GROQ_API_KEY", Key>>, <<"SHAI_API_PROVIDER", Azure>>, Count(1)}),
       ctx |-> BOOLEAN, frontEnds |-> FrontEnds],
      [file |-> MalformedFile,
       env |-> Map({<<"GROQ_API_KEY", Key>>, <<"SHAI_API_PROVIDER", Azure>>, Count(0)}),
       ctx |-> {FALSE}, frontEnds |-> FrontEnds],
      [file |-> NoFile, env |-> Map({<<"OPENAI_API_KEY", Key>>, Count(1)}),
       ctx |-> {FALSE}, frontEnds |-> {"promptui"}] }

\* the process starts: main is entered, Run's locals do not exist yet
InitMain ==
    /\ InitRun
    /\ goroutines = <<>>
    /\ InitPackage
    /\ pc = "LoadConfig"
    /\ prompt = Empty
    /\ client = NoClient
    /\ cfg = DefaultConfig
    /\ shell = Bash
    /\ tokenBuffer = NewContextManager
    /\ \E setup \in MainSetups :
         /\ configFile = setup.file
         /\ env = setup.env
         /\ frontEnd \in setup.frontEnds
         /\ CLI \in [Prompt : {<<>>, <<PromptA>>}, Debug : {FALSE}, Ctx : setup.ctx]

NextMain ==
    \/ MainLoadConfig
    \/ MainCheckKeys
    \/ MainNewClient
    \/ MainCheckPrompt
    \/ Next
    \/ MainExit

\* the process, from main's first statement to its exit
SpecMain == InitMain /\ [][NextMain]_vars

-----------------------------------------------------------------------------
(* internal/parser called directly, as its tests do: a ContextManager *)

\* the characters a direct caller puts into the buffer
Runes == {"a", "b", "c"}

\* the texts of at most n characters
RECURSIVE Texts(_)
Texts(n) ==
    IF n = 0 THEN {<<>>}
    ELSE Texts(n - 1) \cup {Append(t, c) : t \in {u \in Texts(n - 1) : Len(u) = n - 1}, c \in Runes}

Chunks == Texts(MaxChunk)

\* cm := NewContextManager()
InitContext ==
    /\ InitCommon
    /\ InitPackage
    /\ frontEnd = "plain"
    /\ cfg = [SuggestionCount |-> 0, ContextMode |-> TRUE, SkipConfirm |-> FALSE,
              SkipHistory |-> FALSE, APIProvider |-> Groq]
    /\ shell = Bash
    /\ tokenBuffer = NewContextManager

\* what no call on the context manager changes
nonContextVars ==
    <<frontEnd, cfg, pc, rounds, genVars, runVars, shell, history, executed, cwd, output,
      rawResponse, parseRet, httpReply, completion, messages, mainVars, lockVars>>

\* cm.AddToken(token)
CallAddToken ==
    /\ \E token \in Runes :
         /\ tokenBuffer' = AddToken(tokenBuffer, token)
         /\ lastCall' = [fn |-> "AddToken", arg |-> <<token>>, before |-> tokenBuffer,
                         result |-> Empty]
    /\ UNCHANGED nonContextVars

\* cm.AddChunk(chunk)
CallAddChunk ==
    /\ \E chunk \in Chunks :
         /\ tokenBuffer' = AddChunk(chunk)
         /\ lastCall' = [fn |-> "AddChunk", arg |-> chunk, before |-> tokenBuffer,
                         result |-> Empty]
    /\ UNCHANGED nonContextVars

\* cm.Flush()
CallFlush ==
    /\ tokenBuffer' = Flush
    /\ lastCall' = [fn |-> "Flush", arg |-> Empty, before |-> tokenBuffer, result |-> Empty]
    /\ UNCHANGED nonContextVars

\* cm.GetContext()
CallGetContext ==
    /\ lastCall' = [fn |-> "GetContext", arg |-> Empty, before |-> tokenBuffer,
                    result |-> GetContext(tokenBuffer)]
    /\ UNCHANGED <<tokenBuffer, nonContextVars>>

NextContext ==
    \/ CallAddToken
    \/ CallAddChunk
    \/ CallFlush
    \/ CallGetContext

SpecContext == InitContext /\ [][NextContext]_vars

-----------------------------------------------------------------------------
(* internal/parser called directly, as its tests do: ParseLLMResponse *)

\* A response is put together from parts: plain text (a word, a blank, a bare
\* JSON object, the braces of a JSON object written out), inline code spans
\* and fenced code blocks.
TextPart(c) == [kind |-> "text", tag |-> Empty, content |-> c]
InlinePart(c) == [kind |-> "inline", tag |-> Empty, content |-> c]
BlockPart(tag, c) == [kind |-> "block", tag |-> tag, content |-> c]

Parts ==
    { TextPart(<<"x">>), TextPart(<<" ">>), TextPart(<<"{ls}">>), TextPart(<<"{}">>),
      TextPart(<<"{">>), TextPart(<<"}">>),
      InlinePart(<<"{pwd}">>), InlinePart(<<"x">>), InlinePart(<<>>),
      BlockPart(<<>>, <<"{ls}">>), BlockPart(<<"json">>, <<" ", "{pwd}">>),
      BlockPart(<<"json", " ">>, <<"x">>), BlockPart(<<>>, <<>>), BlockPart(<<"json">>, <<"{}">>) }

\* the text of a part, as the LLM writes it
Render(part) ==
    IF part.kind = "text" THEN part.content
    ELSE IF part.kind = "inline" THEN <<Backtick>> \o part.content \o <<Backtick>>
    ELSE <<Backtick, Backtick, Backtick>> \o part.tag \o <<"\n">> \o part.content
             \o <<"\n", Backtick, Backtick, Backtick>>

RECURSIVE RenderAll(_)
RenderAll(parts) == IF parts = <<>> THEN <<>> ELSE Render(Head(parts)) \o RenderAll(Tail(parts))

\* the responses of at most n parts
RECURSIVE PartSeqs(_)
PartSeqs(n) ==
    IF n = 0 THEN {<<>>}
    ELSE PartSeqs(n - 1)
             \cup {Append(t, q) : t \in {u \in PartSeqs(n - 1) : Len(u) = n - 1}, q \in Parts}

InitParse ==
    /\ InitCommon
    /\ frontEnd = "plain"
    /\ cfg = [SuggestionCount |-> 0, ContextMode |-> FALSE, SkipConfirm |-> FALSE,
              SkipHistory |-> FALSE, APIProvider |-> Groq]
    /\ shell = Bash
    /\ tokenBuffer = NewContextManager
    /\ lastCall = NoCall
    /\ rawResponse \in PartSeqs(MaxParts)
    /\ parseRet = NotParsed
    /\ httpReply = NoReply
    /\ completion = NotCalled
    /\ messages = NoMessages

\* got, err := ParseLLMResponse(tt.response)
CallParse ==
    /\ parseRet = NotParsed
    /\ parseRet' = ParseLLMResponse(RenderAll(rawResponse))
    /\ UNCHANGED <<frontEnd, cfg, pc, rounds, genVars, runVars, envVars, rawResponse, lastCall,
                   httpReply, completion, messages, mainVars, lockVars>>

NextParse == CallParse

SpecParse == InitParse /\ [][NextParse]_vars

-----------------------------------------------------------------------------
(* generateSuggestions: the claims about one generation round (SpecGen) *)

InFlight == task.started + task.release

Elements(s) == {s[k] : k \in 1..Len(s)}

FirstIndex(s, x) == SetMin({k \in 1..Len(s) : s[k] = x})

\* C1: at every moment of a round with requested count N, the number of
\* tasks holding a semaphore slot is at most min(4, N).
C1_InFlightAtMostMin4N ==
    /\ InFlight <= 4
    /\ InFlight <= cfg.SuggestionCount
    /\ sem = InFlight

\* four tasks are in flight and the fifth waits for a slot
C1_Witness == cfg.SuggestionCount = 5 /\ i = 4 /\ InFlight = 4 /\ task.started = 2

\* C2: generateSuggestions fails exactly when, all tasks finished, the result
\* list is empty and an error was recorded, and the error it returns wraps the
\* first recorded error; in every other case it returns successfully.
C2_FailsIffNoResultAndAnError ==
    pc = "Generated" =>
        /\ task.done = cfg.SuggestionCount
        /\ (genRet.err # NoError) <=> (Len(suggestions) = 0 /\ Len(errors) > 0)
        /\ genRet.err # NoError =>
               /\ Head(genRet.err) = "failed to generate suggestions"
               /\ Tail(genRet.err) = errors[1]
               /\ genRet.list = <<>>

\* the call failed, and the first recorded error is not the last one
C2_Witness ==
    /\ pc = "Generated"
    /\ genRet.err # NoError
    /\ Len(errors) >= 2
    /\ errors[1] # errors[Len(errors)]

\* C3 as stated: a round fails only if all N tasks fail: whenever at least
\* one task recorded no error, generateSuggestions returns successfully.
C3_FailsOnlyIfAllTasksFail ==
    (pc = "Generated" /\ Len(errors) < cfg.SuggestionCount) => genRet.err = NoError

\* C3 as amended: a round fails only if no task yields a non-empty command:
\* whenever at least one task appended a command, generateSuggestions returns
\* successfully, whatever the other tasks recorded; a failed round has no
\* command and between one and N errors.
C3_FailsOnlyIfNoTaskYieldsCommand ==
    pc = "Generated" =>
        /\ Len(suggestions) > 0 => genRet.err = NoError
        /\ genRet.err # NoError =>
               (Len(suggestions) = 0 /\ Len(errors) >= 1 /\ Len(errors) <= cfg.SuggestionCount)

\* of three tasks one failed and two gave the same command: the round succeeds
C3_Witness ==
    /\ pc = "Generated"
    /\ cfg.SuggestionCount = 3
    /\ Len(errors) = 1
    /\ Len(suggestions) = 2
    /\ genRet.err = NoError
    /\ Len(genRet.list) = 1

\* C4: the list a successful generateSuggestions returns holds every distinct
\* command of the shared result list exactly once and nothing else, has at most
\* N entries, none of them empty, in the order of first appearance.
C4_DeduplicatedInFirstSeenOrder ==
    (pc = "Generated" /\ genRet.err = NoError) =>
        LET list == genRet.list
        IN  /\ Elements(list) = Elements(suggestions)
            /\ \A k, m \in 1..Len(list) : list[k] = list[m] => k = m
            /\ Len(list) <= cfg.SuggestionCount
            /\ \A k \in 1..Len(list) : list[k] # Empty
            /\ \A k, m \in 1..Len(list) :
                   k < m => FirstIndex(suggestions, list[k]) < FirstIndex(suggestions, list[m])

\* two distinct commands came back, one of them more than once
C4_Witness ==
    /\ pc = "Generated"
    /\ genRet.err = NoError
    /\ Len(genRet.list) = 2
    /\ Len(suggestions) > 2
    /\ suggestions[1] = suggestions[3]

-----------------------------------------------------------------------------
(* Run: the claims about the session loop (Spec) *)

\* C5: when generateSuggestions returns an error, Run returns that error at
\* once: no menu is presented, nothing is executed, no history is written, no
\* further round starts, and a Run that has returned takes no further step.
C5_GenerateErrorEndsRun ==
    [][/\ (pc = "Generated" /\ genRet.err # NoError) =>
              /\ pc' = "Returned"
              /\ ret' = genRet.err
              /\ UNCHANGED <<menus, executed, history, tokenBuffer, cwd, rounds, prompt>>
       /\ pc # "Returned"]_vars

\* the second round of a session failed, after a first menu was shown
C5_Witness ==
    /\ pc = "Returned"
    /\ Len(ret) = 2
    /\ Head(ret) = "failed to generate suggestions"
    /\ menus = 1
    /\ rounds = 2

\* C6: selecting Dismiss ends the loop successfully, without executing a
\* command, writing history or changing the context buffer.
C6_DismissEndsRun ==
    [][(pc = "Selecting" /\ selection' = OptDismiss) =>
           /\ pc' = "Returned"
           /\ ret' = NoError
           /\ UNCHANGED <<executed, history, tokenBuffer, cwd, prompt, rounds>>]_vars

\* Dismiss was selected in a later round, the context buffer holding output
C6_Witness ==
    /\ pc = "Returned"
    /\ selection = OptDismiss
    /\ ret = NoError
    /\ tokenBuffer # Empty
    /\ executed # <<>>

\* the candidates of a menu: its entries before the system options
Candidates(menu) == SelectSeq(menu, LAMBDA o : o \notin {OptGenSuggestions, OptNewCommand, OptDismiss})

\* C7 as stated: in Selecting, either front end offers the candidates and the
\* three system options.
C7_BothOfferThreeSystemOptions ==
    pc = "Selecting" =>
        options = Candidates(options) \o <<OptGenSuggestions, OptNewCommand, OptDismiss>>

\* C7 as amended: the promptui menu is the candidates and Dismiss only; on the
\* choices both front ends offer (a candidate, Dismiss, accepting the command,
\* replacing it by a trimmed non-empty text) the two take the same step.
C7_EquivalentOnCommonChoices ==
    /\ pc = "Selecting" =>
           /\ frontEnd = "promptui" => options = Candidates(options) \o <<OptDismiss>>
           /\ frontEnd = "plain" =>
                  options = Candidates(options) \o <<OptGenSuggestions, OptNewCommand, OptDismiss>>
           /\ Candidates(PlainOptions(Candidates(options)))
                  = Candidates(PromptuiOptions(Candidates(options)))
           /\ \A sel \in Elements(Candidates(options)) \cup {OptDismiss} :
                  PlainSwitch(sel) = PromptuiSwitch(sel)
    /\ pc = "Confirming" =>
           /\ PlainConfirm(userCommand, Empty) = PromptuiConfirm(userCommand, userCommand)
           /\ \A text \in ConfirmTexts :
                  (text # Empty /\ TrimSpace(text) = text) =>
                      PlainConfirm(userCommand, text) = PromptuiConfirm(userCommand, text)

\* the promptui front end asks for the confirmation of a candidate
C7_Witness == pc = "Confirming" /\ frontEnd = "promptui" /\ userCommand = CmdPwd /\ rounds = 2

\* C8: selecting "Generate new suggestions" takes the loop back to Generating
\* with the same prompt; nothing is executed, no history is written and the
\* context buffer is unchanged.
C8_RegenerateKeepsPrompt ==
    [][(pc = "Selecting" /\ selection' = OptGenSuggestions) =>
           /\ pc' = "CallGenerate"
           /\ UNCHANGED <<prompt, executed, history, tokenBuffer, cwd, ret>>]_vars

\* "Generate new suggestions" was selected and the next round is about to start
C8_Witness == pc = "CallGenerate" /\ selection = OptGenSuggestions /\ rounds = 1

\* every LLM call of the round in progress was made with Run's current prompt
CallsUsePrompt == \A c \in calls : c.prompt = prompt

\* the step is a read from the user that gave a text: no read error, no signal
ReadSucceeds == err' = NoError /\ pc' # "Killed"

\* C9: selecting "Enter a new command" asks for free text; the text read
\* (white space around it trimmed) becomes the prompt and the loop goes back to
\* Generating; the next round's LLM calls use that prompt, and nothing is
\* executed in between.
C9_NewCommandBecomesPrompt ==
    /\ [][/\ (pc = "Selecting" /\ selection' = OptNewCommand) =>
                 /\ pc' = "EnteringNewPrompt"
                 /\ UNCHANGED <<prompt, executed, history, tokenBuffer, cwd, ret>>
          /\ (pc = "EnteringNewPrompt" /\ ReadSucceeds) =>
                 /\ prompt' = TrimSpace(input')
                 /\ pc' = "CallGenerate"
                 /\ UNCHANGED <<executed, history, tokenBuffer, cwd, ret>>]_vars
    /\ []CallsUsePrompt

\* the LLM was called with a prompt entered through "Enter a new command"
C9_Witness ==
    /\ frontEnd = "plain"
    /\ ~cfg.ContextMode
    /\ rounds = 2
    /\ prompt = PromptB
    /\ calls # {}

\* C10: with context mode off, a confirmed command is executed exactly once
\* and Run then returns nil whatever the exit status; no further round starts.
C10_DefaultModeExecutesOnceAndReturns ==
    /\ [][~cfg.ContextMode =>
              /\ pc = "WritingHistory" => (pc' = "Executing" /\ executed' = executed)
              /\ pc = "Executing" =>
                     /\ executed' = Append(executed, userCommand)
                     /\ pc' = "Returned"
                     /\ ret' = NoError
                     /\ rounds' = rounds]_vars
    /\ [](~cfg.ContextMode =>
              /\ Len(executed) <= 1
              /\ Len(executed) = 1 => (pc = "Returned" /\ ret = NoError))

\* a confirmed command ran, exited non-zero, and Run returned nil
C10_Witness ==
    /\ ~cfg.ContextMode
    /\ ~cfg.SkipConfirm
    /\ pc = "Returned"
    /\ Len(executed) = 1
    /\ err # NoError
    /\ ret = NoError

\* the positions where Run waits for the user
Prompts == {"Selecting", "EnteringNewPrompt", "Confirming", "Prompting"}

\* the step executes a command through sh -c with its output captured
CapturesOutput ==
    /\ pc = "Executing"
    /\ cfg.ContextMode
    /\ ~startsWithAny(userCommand, TextEditors)
    /\ ~HasPrefix(userCommand, <<"c", "d">>)

\* C11: with context mode on, executing a command that begins with neither an
\* editor name nor cd leaves the context buffer holding exactly the trailing
\* min(len(output), capacity) characters of the command's output, whatever the
\* buffer held before and whatever the exit status; an empty output empties it.
C11_BufferHoldsTrailingOutput ==
    [][CapturesOutput =>
           /\ executed' = Append(executed, userCommand)
           /\ tokenBuffer' = Trailing(output', Min(Len(output'), MaxContextTokens))
           /\ GetContext(tokenBuffer') = tokenBuffer'
           /\ output' = Empty => GetContext(tokenBuffer') = Empty]_vars

\* a second command exited non-zero and printed more than the buffer holds
C11_Witness ==
    /\ cfg.ContextMode
    /\ pc = "Prompting"
    /\ Len(executed) = 2
    /\ err # NoError
    /\ Len(output) > MaxContextTokens
    /\ tokenBuffer = Trailing(output, MaxContextTokens)

\* C12: with context mode on, no error of the history write, of cd or of the
\* subprocess ends the session: whatever the error, Run goes on to the
\* execution, then asks for the next prompt, and a prompt read starts the next
\* generation round.
C12_ExecutionErrorsNeverEndSession ==
    [][cfg.ContextMode =>
           /\ pc = "WritingHistory" => (pc' = "Executing" /\ ret' = NotReturned)
           /\ pc = "Executing" => (pc' = "Prompting" /\ ret' = NotReturned)
           /\ (pc = "Prompting" /\ ReadSucceeds) =>
                  /\ pc' = "CallGenerate"
                  /\ ret' = NotReturned
                  /\ prompt' = TrimSpace(input')
           /\ pc = "CallGenerate" => (pc' = "Spawning" /\ rounds' = rounds + 1)]_vars

\* the history file could not be written, the command ran, and the next round
\* is under way
C12_Witness ==
    /\ cfg.ContextMode
    /\ ~cfg.SkipHistory
    /\ shell = Bash
    /\ history = <<>>
    /\ executed # <<>>
    /\ pc = "Spawning"
    /\ rounds = 2

\* the step is a user interrupt at a prompt: promptui's prompt returns ^C, the
\* plain Run's process gets the signal
Interrupted ==
    /\ pc \in Prompts
    /\ \/ frontEnd = "promptui" /\ err' = Interrupt
       \/ frontEnd = "plain" /\ pc' = "Killed"

\* C13 as stated: an interrupt at any prompt, in either front end, makes Run
\* return nil, and no command is executed after it.
C13_InterruptIsDismissInEitherFrontEnd ==
    [][Interrupted => (pc' = "Returned" /\ ret' = NoError /\ executed' = executed)]_vars

\* C13 as amended: in the promptui front end an interrupt at any of its
\* prompts makes Run return nil, like Dismiss, with nothing executed or written;
\* the plain front end handles no interrupt: a failed read makes Run return the
\* read error and a signal ends the process without Run returning; in either,
\* nothing is executed afterwards.
C13_PromptuiInterruptIsDismiss ==
    [][/\ (frontEnd = "promptui" /\ pc \in Prompts /\ err' = Interrupt) =>
              /\ pc' = "Returned"
              /\ ret' = NoError
              /\ UNCHANGED <<executed, history, tokenBuffer, cwd, rounds>>
       /\ (frontEnd = "plain" /\ pc \in Prompts /\ err' = EOF) =>
              /\ pc' = "Returned"
              /\ ret' = EOF
              /\ UNCHANGED <<executed, history, tokenBuffer, cwd, rounds>>
       /\ pc' = "Killed" =>
              /\ frontEnd = "plain"
              /\ ret' = NotReturned
              /\ UNCHANGED <<executed, history, tokenBuffer, cwd, rounds>>
       /\ pc \notin {"Returned", "Killed"}]_vars

\* promptui was interrupted at a prompt after a command had been executed
C13_Witness ==
    /\ frontEnd = "promptui"
    /\ cfg.ContextMode
    /\ executed # <<>>
    /\ pc = "Returned"
    /\ err = Interrupt
    /\ ret = NoError

-----------------------------------------------------------------------------
(* ContextManager: the claims about the context buffer (SpecContext) *)

\* C15: from any prior buffer state, after AddChunk(text) GetContext returns
\* exactly the trailing min(len(text), MaxContextTokens) characters of text:
\* nothing of what the buffer held before survives.
C15_AddChunkKeepsTrailingOfChunkAlone ==
    lastCall.fn = "AddChunk" =>
        GetContext(tokenBuffer) =
            Trailing(lastCall.arg, Min(Len(lastCall.arg), MaxContextTokens))

\* a chunk longer than the capacity was added to a full buffer holding other text
C15_Witness ==
    /\ lastCall.fn = "AddChunk"
    /\ Len(lastCall.before) = MaxContextTokens
    /\ Len(lastCall.arg) > MaxContextTokens
    /\ tokenBuffer # lastCall.before
    /\ lastCall.arg[1] # tokenBuffer[1]

\* C16: after any sequence of AddToken, AddChunk and Flush the buffer is never
\* longer than its maximum; AddToken on a full buffer drops exactly the oldest
\* character and puts the new one at the end; on a buffer that is not full it
\* appends and drops nothing, so a short text added to an empty buffer is read
\* back unchanged.
C16_LengthBoundedFifoEviction ==
    /\ Len(tokenBuffer) <= MaxContextTokens
    /\ lastCall.fn = "AddToken" =>
           LET old == lastCall.before
               full == Len(old) = MaxContextTokens
               kept == IF full THEN Len(old) - 1 ELSE Len(old)
               shift == IF full THEN 1 ELSE 0
           IN  /\ Len(tokenBuffer) = kept + 1
               /\ tokenBuffer[Len(tokenBuffer)] = lastCall.arg[1]
               /\ \A k \in 1..kept : tokenBuffer[k] = old[k + shift]
    /\ (lastCall.fn = "AddChunk" /\ Len(lastCall.arg) <= MaxContextTokens) =>
           GetContext(tokenBuffer) = lastCall.arg

\* a token was added to a full buffer and the oldest one was dropped
C16_Witness ==
    /\ lastCall.fn = "AddToken"
    /\ Len(lastCall.before) = MaxContextTokens
    /\ Len(tokenBuffer) = MaxContextTokens
    /\ lastCall.before[1] # lastCall.before[2]
    /\ tokenBuffer[1] = lastCall.before[2]
    /\ tokenBuffer[Len(tokenBuffer)] # lastCall.before[Len(tokenBuffer)]

\* C17: GetContext returns the empty string for a new context manager and
\* after Flush from any state; GetContext never changes the buffer (it returns
\* what the buffer holds), and Flush on a flushed buffer leaves it empty.
C17_EmptyWhenNewOrFlushed ==
    /\ lastCall.fn = "none" => GetContext(tokenBuffer) = Empty
    /\ lastCall.fn = "Flush" => (tokenBuffer = Empty /\ GetContext(tokenBuffer) = Empty)
    /\ lastCall.fn = "GetContext" =>
           /\ tokenBuffer = lastCall.before
           /\ lastCall.result = lastCall.before
           /\ lastCall.before = NewContextManager => lastCall.result = Empty

\* a full buffer was flushed
C17_Witness ==
    /\ lastCall.fn = "Flush"
    /\ Len(lastCall.before) = MaxContextTokens
    /\ tokenBuffer = Empty

-----------------------------------------------------------------------------
(* ParseLLMResponse: the claims about the response extractor (SpecParse) *)

HasKind(parts, kind) == \E k \in 1..Len(parts) : parts[k].kind = kind

FirstOfKind(parts, kind) == parts[SetMin({k \in 1..Len(parts) : parts[k].kind = kind})]

\* the text the search order selects: the first code block's content, else the
\* first inline span's content, else the whole response
Selected(parts) ==
    IF HasKind(parts, "block") THEN FirstOfKind(parts, "block").content
    ELSE IF HasKind(parts, "inline") THEN FirstOfKind(parts, "inline").content
    ELSE RenderAll(parts)

\* the text is one JSON object, white space around it aside
ValidJSON(text) == Unmarshal(text).err = NoError

Parsed == parseRet # NotParsed

\* C18: ParseLLMResponse parses the content of the first fenced code block
\* (tagged json or not) if there is one, else the content of the first inline
\* span if there is one, else the whole text; when the text so selected is a
\* valid JSON object it returns exactly its command, and no error.
C18_SelectsByPrecedence ==
    (Parsed /\ ValidJSON(Selected(rawResponse))) =>
        /\ parseRet.err = NoError
        /\ parseRet.command = Unmarshal(Selected(rawResponse)).command

\* an inline span with one command comes before a code block with another:
\* the block's command is returned
C18_Witness ==
    /\ Parsed
    /\ Len(rawResponse) = 3
    /\ rawResponse[1] = InlinePart(<<"{pwd}">>)
    /\ rawResponse[2] = TextPart(<<"x">>)
    /\ rawResponse[3] = BlockPart(<<>>, <<"{ls}">>)
    /\ parseRet = [err |-> NoError, command |-> CmdLs]

\* C19: when the selected text is not valid JSON, ParseLLMResponse returns a
\* parse error and an empty command; it does not go on to an inline span or to
\* valid JSON elsewhere in the response.
C19_NoFallbackOnInvalidJSON ==
    (Parsed /\ ~ValidJSON(Selected(rawResponse))) =>
        /\ parseRet.err = ParseError
        /\ parseRet.command = Empty

\* the first code block holds no JSON, an inline span after it does: an error
C19_Witness ==
    /\ Parsed
    /\ Len(rawResponse) = 2
    /\ rawResponse[1] = BlockPart(<<"json", " ">>, <<"x">>)
    /\ rawResponse[2] = InlinePart(<<"{pwd}">>)
    /\ parseRet.err = ParseError

\* the selected text is a JSON object whose command is empty or missing
EmptyCommand(parts) == ValidJSON(Selected(parts)) /\ Unmarshal(Selected(parts)).command = Empty

\* the response holds no JSON object: it is none, and none of its parts is
NoContent(parts) ==
    /\ ~ValidJSON(RenderAll(parts))
    /\ \A k \in 1..Len(parts) : ~ValidJSON(parts[k].content)

-----------------------------------------------------------------------------
(* cmd/shai and internal/llm: the claims about the process (SpecMain) *)

UnsupportedConfigured == cfg.APIProvider \notin Providers

\* the process printed this message on os.Stderr
Reported(message) == \E k \in 1..Len(stderr) : stderr[k] = message

\* C21 as stated: when the configured provider key is neither "openai" nor
\* "groq", every completion call returns an unsupported-provider error and no
\* HTTP request is ever sent; the process reports the error and exits
\* non-zero.
C21_UnsupportedProviderIsFatal ==
    UnsupportedConfigured =>
        /\ requests = 0
        /\ \A k \in 1..Len(errors) : errors[k] = UnsupportedProvider(cfg.APIProvider)
        /\ pc = "Exited" => exitCode # 0

\* C21 as amended: when the configured provider key is neither "openai" nor
\* "groq", every completion call returns an unsupported-provider error and no
\* HTTP request is ever sent, so that no suggestion is recorded and no menu
\* with a suggestion is shown; a process that has the prompt, a key and a
\* count of at least 1 to make such a call reports the error and exits 1.
C21_UnsupportedProviderFailsEveryCall ==
    UnsupportedConfigured =>
        /\ requests = 0
        /\ \A k \in 1..Len(errors) : errors[k] = UnsupportedProvider(cfg.APIProvider)
        /\ suggestions = <<>>
        /\ (cfg.SuggestionCount >= 1 /\ pc \in {"Generated", "Returned", "Exited"})
               => menus = 0
        /\ (pc = "Exited" /\ CLI.Prompt # <<>> /\ cfg.SuggestionCount >= 1
                /\ ~(cfg.OpenAIAPIKey = Empty /\ cfg.GroqAPIKey = Empty))
               => /\ exitCode = 1
                  /\ Reported(<<"Error">> \o WrapError(UnsupportedProvider(cfg.APIProvider)))

\* a process with the provider "azure" made its call, reported the error and
\* exited with status 1, no request sent
C21_Witness ==
    /\ pc = "Exited"
    /\ cfg.APIProvider = Azure
    /\ rounds = 1
    /\ requests = 0
    /\ exitCode = 1
    /\ Reported(<<"Error">> \o WrapError(UnsupportedProvider(Azure)))

-----------------------------------------------------------------------------
(* internal/llm called directly: GenerateCompletion against a stub provider *)

\* most choices of an envelope the stub provider answers with
MaxChoices == 2

\* the contents of a choice's message
Contents == { <<"{ls}">>, <<"x">> }

\* the lists of at most n choices
RECURSIVE ChoiceSeqs(_)
ChoiceSeqs(n) ==
    IF n = 0 THEN {<<>>}
    ELSE ChoiceSeqs(n - 1)
             \cup {Append(t, c) : t \in {u \in ChoiceSeqs(n - 1) : Len(u) = n - 1}, c \in Contents}

\* what the stub provider answers: no answer at all, or one of three statuses
\* with a body that is a text or an envelope
ClientReplies ==
    {NoReply}
        \cup {HTTPReply(status, body) :
                 status \in {StatusOK} \cup FailureStatuses,
                 body \in {TextBody("busy")} \cup {Envelope(c) : c \in ChoiceSeqs(MaxChoices)}}

InitClient ==
    /\ InitCommon
    /\ frontEnd = "plain"
    /\ cfg \in {[SuggestionCount |-> 0, ContextMode |-> FALSE, SkipConfirm |-> FALSE,
                 SkipHistory |-> FALSE, APIProvider |-> p] : p \in {Groq, OpenAI, Azure}}
    /\ shell = Bash
    /\ tokenBuffer = NewContextManager
    /\ rawResponse = Empty
    /\ parseRet = NotParsed
    /\ lastCall = NoCall
    /\ httpReply \in ClientReplies
    /\ completion = NotCalled
    /\ messages = NoMessages

\* response, err := client.GenerateCompletion(systemPrompt, userPrompt)
CallGenerateCompletion ==
    /\ completion = NotCalled
    /\ completion' = GenerateCompletion(cfg, httpReply)
    /\ requests' = requests + GenerateCompletion(cfg, httpReply).sent
    /\ UNCHANGED <<frontEnd, cfg, pc, rounds, i, sem, wg, task, suggestions, errors, genRet, calls,
                   runVars, envVars, rawResponse, parseRet, lastCall, httpReply, messages, mainVars,
                   lockVars>>

NextClient == CallGenerateCompletion

SpecClient == InitClient /\ [][NextClient]_vars

\* the direct caller's call has returned
Completed == completion # NotCalled

\* the request was answered with status 200 and an envelope of at least one choice
Answered == cfg.APIProvider \in Providers /\ httpReply.err = NoError
FirstChoice ==
    /\ Answered
    /\ httpReply.status = StatusOK
    /\ httpReply.body.json
    /\ Len(httpReply.body.choices) >= 1

\* C22: GenerateCompletion returns the first choice's message content exactly
\* when the HTTP status is 200 and the decoded envelope has at least one
\* choice; a non-200 status yields an error carrying the status code and the
\* body text, a 200 envelope with zero choices yields the "no completions"
\* error, and in every error case the returned text is empty.
C22_FirstChoiceOn200Only ==
    Completed =>
        /\ completion.err = NoError <=> FirstChoice
        /\ FirstChoice => completion.response = httpReply.body.choices[1]
        /\ (Answered /\ httpReply.status # StatusOK)
               => completion.err = <<"API request failed with status",
                                     ToString(httpReply.status), httpReply.body.text>>
        /\ (Answered /\ httpReply.status = StatusOK /\ httpReply.body.json
                /\ Len(httpReply.body.choices) = 0)
               => completion.err = NoCompletions
        /\ completion.err # NoError => completion.response = Empty

\* a 200 envelope of two different choices was answered with the first one
C22_Witness ==
    /\ Completed
    /\ httpReply.status = StatusOK
    /\ Len(httpReply.body.choices) = 2
    /\ httpReply.body.choices[1] # httpReply.body.choices[2]
    /\ completion = [err |-> NoError, response |-> httpReply.body.choices[1], sent |-> 1]

\* the configuration LoadConfig resolves for this process, and main's test of it
Resolved == LoadConfig(configFile, env)
NoCredentials == Resolved.cfg.OpenAIAPIKey = Empty /\ Resolved.cfg.GroqAPIKey = Empty

\* the process has exited; Run returned to main before it did
Exited == pc = "Exited"
RunReturned == ret # NotReturned

\* C23 as stated: the process exits 0 when the session ends by dismissal or
\* normal completion and when no prompt argument is given (with no LLM call
\* made); it exits 1 on configuration load failure, missing credentials,
\* client construction failure, or an error returned by the session loop.
C23_ExitCodes ==
    Exited =>
        /\ (RunReturned /\ ret = NoError) => exitCode = 0
        /\ CLI.Prompt = <<>> => (exitCode = 0 /\ rounds = 0 /\ requests = 0)
        /\ Resolved.err # NoError => exitCode = 1
        /\ NoCredentials => exitCode = 1
        /\ NewClient.err # NoError => exitCode = 1
        /\ (RunReturned /\ ret # NoError) => exitCode = 1

\* C23 as amended: main tests in this order, and the first test that applies
\* decides: configuration load failure, missing credentials and client
\* construction failure exit 1; then no prompt argument exits 0 with no LLM
\* call made; then an error returned by the session loop exits 1 and its
\* return without error (dismissal, normal completion) exits 0.
C23_ExitCodesInMainsOrder ==
    Exited =>
        /\ exitCode \in {0, 1}
        /\ Resolved.err # NoError => exitCode = 1
        /\ NoCredentials => exitCode = 1
        /\ NewClient.err # NoError => exitCode = 1
        /\ (Resolved.err = NoError /\ ~NoCredentials /\ NewClient.err = NoError)
               => /\ CLI.Prompt = <<>>
                      => (exitCode = 0 /\ ~RunReturned /\ rounds = 0 /\ requests = 0)
                  /\ CLI.Prompt # <<>>
                      => (RunReturned /\ (exitCode = 0 <=> ret = NoError))
        /\ (CLI.Prompt = <<>> \/ NoCredentials) => (rounds = 0 /\ requests = 0)
        /\ exitCode = 1 => stderr # <<>>

\* a session that executed a command ended without error and the process
\* exited 0
C23_Witness ==
    /\ Exited
    /\ exitCode = 0
    /\ RunReturned
    /\ executed # <<>>
    /\ requests > 0

\* C24: if after configuration resolution neither the OpenAI key nor the Groq
\* key is populated, the program refuses to proceed: it exits non-zero without
\* constructing a client, starting the session loop, or issuing any LLM call.
C24_NoCredentialsNoSession ==
    NoCredentials =>
        /\ pc \in {"LoadConfig", "CheckKeys", "Exited"}
        /\ Exited => (exitCode = 1 /\ Reported(<<"Error: No API key found">>))
        /\ client = NoClient
        /\ ~RunReturned
        /\ rounds = 0
        /\ menus = 0
        /\ calls = {}
        /\ requests = 0

\* a process given a prompt but no key exited 1, no client made
C24_Witness ==
    /\ NoCredentials
    /\ Exited
    /\ CLI.Prompt # <<>>
    /\ exitCode = 1
    /\ client = NoClient

\* main's cfg once LoadConfig returned and the two flags were applied
Flagged(config) == [config EXCEPT !.Debug = @ \/ CLI.Debug, !.ContextMode = @ \/ CLI.Ctx]

\* C25 as stated: a config file that exists but contains malformed JSON is a
\* fatal configuration error: configuration loading fails and the process
\* exits non-zero before any network activity (a missing file is not an error).
C25_MalformedFileIsFatal ==
    /\ configFile = MalformedFile
           => /\ Resolved.err # NoError
              /\ pc \in {"LoadConfig", "Exited"}
              /\ Exited => exitCode # 0
              /\ requests = 0
    /\ configFile = NoFile => Resolved.err = NoError

\* C25 as amended: a config file that exists but contains malformed JSON is
\* reported as a warning on the error stream and is otherwise treated like a
\* missing file: configuration loading succeeds with the defaults overridden
\* by the environment, and the process goes on to the test of the credentials.
\* A missing file is not an error and is not reported.
C25_MalformedFileIsWarning ==
    /\ Resolved.err = NoError
    /\ configFile \in {MalformedFile, NoFile}
           => /\ Resolved.cfg = LoadConfig(NoFile, env).cfg
              /\ pc # "LoadConfig" => cfg = Flagged(LoadConfig(NoFile, env).cfg)
    /\ (configFile = MalformedFile /\ pc # "LoadConfig")
           => /\ stderr # <<>>
              /\ stderr[1] = <<"Warning: Error reading config file">> \o ParseFileError
              /\ pc = "Exited" => (exitCode = 1 <=> (NoCredentials \/ (RunReturned /\ ret # NoError)))
    /\ configFile = NoFile => ~Reported(FileWarning(NotExist))

\* with a malformed config file and a key in the environment the process
\* warned, ran a session that sent requests, and exited 0
C25_Witness ==
    /\ configFile = MalformedFile
    /\ Exited
    /\ exitCode = 0
    /\ requests > 0
    /\ Reported(FileWarning(ParseFileError))

-----------------------------------------------------------------------------
(* internal/config called directly, as its tests do: LoadConfig *)

\* most keys the file and the environment of a test set between them
MaxKeys == 1

\* the raw values a test gives a key, by the type of its field
RawValues(kind) ==
    CASE kind = "string" -> { Empty, <<"file-key">>, <<"env-key">> }
      [] kind = "int" -> { Empty, <<"7">>, <<"1", "2">>, <<"-", "1">>, <<"x">>, <<"7", "x">> }
      [] kind = "bool" -> { Empty, <<"true">>, <<"1">>, <<"false">>, <<"F">>, <<"yes">> }
      [] kind = "float" -> { Empty, <<"0", ".", "7">>, <<"1">>, <<"1", ".", "2", ".", "3">>,
                             <<"x">> }

\* the settings of at most n keys
SettingSets(n) == {K \in SUBSET {Settings[k] : k \in 1..Len(Settings)} : Cardinality(K) <= n}

\* the layers (the map of a file, an environment) that set some of the keys of K
Layers(K) ==
    UNION { { m \in [{s.key : s \in K1} -> UNION {RawValues(s.kind) : s \in K1}] :
                \A s \in K1 : m[s.key] \in RawValues(s.kind) } : K1 \in SUBSET K }

InitConfig ==
    /\ InitRun
    /\ goroutines = <<>>
    /\ InitPackage
    /\ pc = "CallGenerate"
    /\ prompt = Empty
    /\ CLI = NoCommandLine
    /\ client = NoClient
    /\ frontEnd = "plain"
    /\ shell = Bash
    /\ tokenBuffer = NewContextManager
    /\ cfg = DefaultConfig
    /\ \E K \in SettingSets(MaxKeys) :
         /\ configFile \in {NoFile, MalformedFile}
                               \cup {[err |-> NoError, map |-> m] : m \in Layers(K)}
         /\ env \in Layers(K)

\* cfg, err := LoadConfig()
CallLoadConfig ==
    /\ lastCall = NoCall
    /\ cfg' = LoadConfig(configFile, env).cfg
    /\ stderr' = stderr \o LoadConfig(configFile, env).warnings
    /\ lastCall' = [fn |-> "LoadConfig", arg |-> Empty, before |-> Empty,
                    result |-> LoadConfig(configFile, env).err]
    /\ UNCHANGED <<frontEnd, pc, rounds, genVars, runVars, envVars, rawResponse, parseRet,
                   httpReply, completion, messages, env, configFile, CLI, exitCode, client,
                   lockVars>>

NextConfig == CallLoadConfig

SpecConfig == InitConfig /\ [][NextConfig]_vars

\* the direct caller's LoadConfig has returned
Loaded == lastCall.fn = "LoadConfig"

\* what the raw values of the tests mean for a field of a type; a numeric or
\* boolean value without a meaning is malformed
Meanings(kind) ==
    CASE kind = "string" -> {<<v, v>> : v \in RawValues("string")}
      [] kind = "int" -> { <<<<"7">>, 7>>, <<<<"1", "2">>, 12>>, <<<<"-", "1">>, 0 - 1>> }
      [] kind = "bool" -> { <<<<"true">>, TRUE>>, <<<<"1">>, TRUE>>, <<<<"false">>, FALSE>>,
                            <<<<"F">>, FALSE>> }
      [] kind = "float" -> { <<<<"0", ".", "7">>, 70>>, <<<<"1">>, 100>> }
WellFormed(kind, val) == \E q \in Meanings(kind) : q[1] = val
Meaning(kind, val) == (CHOOSE q \in Meanings(kind) : q[1] = val)[2]

\* the layers' values of a setting: the file has the key, the variable is not empty
InFile(s) == configFile.err = NoError /\ s.key \in DOMAIN configFile.map
InEnv(s) == s.key \in DOMAIN env /\ env[s.key] # Empty

\* C26: for every configuration field, LoadConfig resolves the value from
\* three layers in increasing precedence: an environment value that is set
\* wins over a file value, a file value wins over the default, a malformed
\* numeric or boolean value in a layer is ignored so that the field keeps the
\* previous layer's value, and with no file and no environment variables
\* every field equals its documented default.
C26_ThreeLayerPrecedence ==
    Loaded =>
        /\ lastCall.result = NoError
        /\ \A k \in 1..Len(Settings) :
             LET s == Settings[k]
             IN  cfg[s.field] =
                     IF InEnv(s) /\ WellFormed(s.kind, env[s.key])
                     THEN Meaning(s.kind, env[s.key])
                     ELSE IF InFile(s) /\ WellFormed(s.kind, configFile.map[s.key])
                     THEN Meaning(s.kind, configFile.map[s.key])
                     ELSE DefaultConfig[s.field]
        /\ (configFile = NoFile /\ \A k \in 1..Len(Settings) : ~InEnv(Settings[k]))
               => /\ cfg.OpenAIModel = <<"gpt-3.5-turbo">>
                  /\ cfg.SuggestionCount = 3
                  /\ cfg.APIProvider = <<"groq">>
                  /\ cfg.GroqModel = <<"llama-3.3-70b-versatile">>
                  /\ cfg.Temperature = 5
                  /\ cfg.OpenAIAPIVersion = <<"2023-05-15">>
                  /\ cfg.OpenAIAPIKey = Empty /\ cfg.GroqAPIKey = Empty
                  /\ cfg.OpenAIMaxTokens = 0
                  /\ ~cfg.SkipConfirm /\ ~cfg.SkipHistory /\ ~cfg.Debug /\ ~cfg.ContextMode

\* the file sets GROQ_API_KEY to file-key, the environment to env-key: the
\* resolved key is env-key
C26_Witness ==
    /\ Loaded
    /\ configFile.err = NoError
    /\ "GROQ_API_KEY" \in DOMAIN configFile.map
    /\ configFile.map["GROQ_API_KEY"] = <<"file-key">>
    /\ "GROQ_API_KEY" \in DOMAIN env
    /\ env["GROQ_API_KEY"] = <<"env-key">>
    /\ cfg.GroqAPIKey = <<"env-key">>

-----------------------------------------------------------------------------
(* generateSuggestions: the claims about the tasks of a round (SpecGenFair, SpecLock) *)

AllFinished == i = cfg.SuggestionCount /\ task.done = cfg.SuggestionCount /\ wg = 0

\* C27: within one generation round all N tasks are started and run to
\* completion: a task's failure never cancels or skips a sibling task (a task
\* that records an error leaves the loop and the other tasks as they are, and
\* the round goes on until all N tasks are done), and the success/failure
\* decision and deduplication happen only after every task has finished.
C27_AllTasksRunThenDecide ==
    /\ [](pc = "Generated" => AllFinished)
    /\ [][errors' # errors =>
              /\ i' = i
              /\ task'.started = task.started - 1
              /\ task'.done = task.done
              /\ suggestions' = suggestions
              /\ pc' = pc]_vars
    /\ [][(pc # "Generated" /\ pc' = "Generated") =>
              /\ AllFinished
              /\ genRet' = GenerateResult(suggestions, errors)
              /\ UNCHANGED <<suggestions, errors, task>>]_vars
    /\ (pc = "Spawning") ~> (pc = "Generated" /\ AllFinished)

\* a round of several tasks of which one failed ended with all of them done
\* and the suggestions of the others recorded
C27_Witness ==
    /\ pc = "Generated"
    /\ cfg.SuggestionCount = MaxFairCount
    /\ task.done = MaxFairCount
    /\ Len(errors) = 1
    /\ Len(suggestions) = MaxFairCount - 1
    /\ genRet.err = NoError

-----------------------------------------------------------------------------
(* generateSuggestions with the body of a goroutine taken statement by    *)
(* statement: mu.Lock(), the two halves of append, mu.Unlock()            *)

\* largest cfg.SuggestionCount of a round taken statement by statement
MaxLockTasks == 3

\* the provider's answers to the tasks of such a round: a failed request, a
\* command, an object without command
LockReplies ==
    { HTTPReply(500, TextBody("busy")), HTTPReply(StatusOK, Envelope(<<<<"{ls}">>>>)),
      HTTPReply(StatusOK, Envelope(<<<<"{}">>>>)) }

\* a goroutine that the loop has not started yet
NotStarted == [at |-> "idle", kind |-> "none", value |-> Empty, local |-> <<>>]

\* what a goroutine has in hand after client.GenerateShellCommand and
\* parser.ParseLLMResponse: an error for errors, a command for suggestions,
\* or an empty command, which is recorded nowhere
Outcome(r) ==
    LET parsed == ParseLLMResponse(r.response)
    IN  IF r.err # NoError THEN [kind |-> "error", value |-> r.err]
        ELSE IF parsed.err # NoError THEN [kind |-> "error", value |-> parsed.err]
        ELSE IF parsed.command # Empty THEN [kind |-> "command", value |-> parsed.command]
        ELSE [kind |-> "empty", value |-> Empty]

\* mu.Lock() going through whoever holds the mutex
CanLock_Always(m) == TRUE

\* mu.Lock() returns when nobody holds the mutex
CanLock(m) == m = Unlocked

otherVars ==
    <<frontEnd, cfg, pc, rounds, genRet, task, runVars, envVars, pkgVars, mainVars>>

\* one iteration of the for loop: wg.Add(1), sem <- struct{}{}, go func()
GoSpawn ==
    /\ pc = "Spawning"
    /\ i < cfg.SuggestionCount
    /\ sem < maxWorkers
    /\ wg' = wg + 1
    /\ sem' = sem + 1
    /\ i' = i + 1
    /\ goroutines' = [goroutines EXCEPT ![i + 1].at = "call"]
    /\ UNCHANGED <<mu, suggestions, errors, calls, requests, otherVars>>

\* the goroutine reads the context, calls the LLM and parses the response
GoCall(g) ==
    /\ goroutines[g].at = "call"
    /\ LET context == IF cfg.ContextMode THEN GetContext(tokenBuffer) ELSE Empty
       IN  \E reply \in LockReplies :
             LET r == GenerateCompletion(cfg, reply)
             IN  /\ calls' = calls \cup {[prompt |-> prompt, context |-> context]}
                 /\ requests' = requests + r.sent
                 /\ goroutines' =
                        [goroutines EXCEPT ![g] =
                            [at |-> IF Outcome(r).kind = "empty" THEN "release" ELSE "lock",
                             kind |-> Outcome(r).kind, value |-> Outcome(r).value,
                             local |-> <<>>]]
    /\ UNCHANGED <<mu, i, sem, wg, suggestions, errors, otherVars>>

\* mu.Lock()
GoLock(g) ==
    /\ goroutines[g].at = "lock"
    /\ CanLock(mu)
    /\ mu' = g
    /\ goroutines' = [goroutines EXCEPT ![g].at = "read"]
    /\ UNCHANGED <<i, sem, wg, suggestions, errors, calls, requests, otherVars>>

\* append's first half: the list as it is now is read
GoRead(g) ==
    /\ goroutines[g].at = "read"
    /\ goroutines' = [goroutines EXCEPT
                         ![g].at = "write",
                         ![g].local = IF goroutines[g].kind = "error" THEN errors
                                      ELSE suggestions]
    /\ UNCHANGED <<mu, i, sem, wg, suggestions, errors, calls, requests, otherVars>>

\* append's second half: the list read, one element longer, is assigned
GoWrite(g) ==
    /\ goroutines[g].at = "write"
    /\ IF goroutines[g].kind = "error"
       THEN /\ errors' = Append(goroutines[g].local, goroutines[g].value)
            /\ suggestions' = suggestions
       ELSE /\ suggestions' = Append(goroutines[g].local, goroutines[g].value)
            /\ errors' = errors
    /\ goroutines' = [goroutines EXCEPT ![g].at = "unlock", ![g].local = <<>>]
    /\ UNCHANGED <<mu, i, sem, wg, calls, requests, otherVars>>

\* mu.Unlock()
GoUnlock(g) ==
    /\ goroutines[g].at = "unlock"
    /\ mu' = Unlocked
    /\ goroutines' = [goroutines EXCEPT ![g].at = "release"]
    /\ UNCHANGED <<i, sem, wg, suggestions, errors, calls, requests, otherVars>>

\* the deferred func() { <-sem }()
GoRelease(g) ==
    /\ goroutines[g].at = "release"
    /\ sem' = sem - 1
    /\ goroutines' = [goroutines EXCEPT ![g].at = "wgdone"]
    /\ UNCHANGED <<mu, i, wg, suggestions, errors, calls, requests, otherVars>>

\* the deferred wg.Done()
GoDone(g) ==
    /\ goroutines[g].at = "wgdone"
    /\ wg' = wg - 1
    /\ goroutines' = [goroutines EXCEPT ![g].at = "done"]
    /\ UNCHANGED <<mu, i, sem, suggestions, errors, calls, requests, otherVars>>

Goroutines == DOMAIN goroutines

InitLock ==
    /\ InitRun
    /\ InitPackage
    /\ pc = "CallGenerate"
    /\ prompt = PromptA
    /\ client = NewClient.client
    /\ CLI = NoCommandLine
    /\ env = NoEnv
    /\ configFile = NoFile
    /\ frontEnd = "plain"
    /\ cfg \in {c \in Configs(0..MaxLockTasks) : ~c.ContextMode /\ ~c.SkipConfirm /\ ~c.SkipHistory}
    /\ shell = Bash
    /\ tokenBuffer = Empty
    /\ goroutines = [g \in 1..cfg.SuggestionCount |-> NotStarted]

NextLock ==
    \/ generateSuggestions
    \/ GoSpawn
    \/ \E g \in Goroutines : GoCall(g)
    \/ \E g \in Goroutines : GoLock(g)
    \/ \E g \in Goroutines : GoRead(g)
    \/ \E g \in Goroutines : GoWrite(g)
    \/ \E g \in Goroutines : GoUnlock(g)
    \/ \E g \in Goroutines : GoRelease(g)
    \/ \E g \in Goroutines : GoDone(g)
    \/ GenerateReturn

SpecLock == InitLock /\ [][NextLock]_vars

\* the goroutines between mu.Lock() and mu.Unlock()
InCritical == {g \in Goroutines : goroutines[g].at \in {"read", "write", "unlock"}}

\* the goroutines with an outcome of a kind, and those of them that have
\* updated the list
WithOutcome(kind) == {g \in Goroutines : goroutines[g].kind = kind}
Updated(kind) ==
    {g \in WithOutcome(kind) : goroutines[g].at \in {"unlock", "release", "wgdone", "done"}}

\* C28: updates of concurrent tasks to the shared result list and error list
\* are mutually exclusive and none is lost: under every interleaving each
\* list holds one element for each task that has updated it, and once all
\* tasks have finished, (number of recorded results) + (number of recorded
\* errors) + (number of tasks that parsed an empty command) = N, each task
\* contributing to exactly one of the three.
C28_ExclusiveUpdatesNoneLost ==
    /\ Cardinality(InCritical) <= 1
    /\ InCritical # {} => InCritical = {mu}
    /\ Len(suggestions) = Cardinality(Updated("command"))
    /\ Len(errors) = Cardinality(Updated("error"))
    /\ \A k \in 1..Len(suggestions) :
         \E g \in Updated("command") : goroutines[g].value = suggestions[k]
    /\ \A k \in 1..Len(errors) : \E g \in Updated("error") : goroutines[g].value = errors[k]
    /\ pc = "Generated" =>
           /\ \A g \in Goroutines : goroutines[g].at = "done"
           /\ \A g \in Goroutines : goroutines[g].kind \in {"command", "error", "empty"}
           /\ Len(suggestions) + Len(errors) + Cardinality(WithOutcome("empty"))
                  = cfg.SuggestionCount

\* a round of three tasks ended with one result, one error and one empty
\* command
C28_Witness ==
    /\ pc = "Generated"
    /\ cfg.SuggestionCount = MaxLockTasks
    /\ Len(suggestions) >= 1
    /\ Len(errors) >= 1
    /\ Cardinality(WithOutcome("empty")) >= 1

-----------------------------------------------------------------------------
(* Run and generateSuggestions: the context buffer during a session (Spec) *)

\* the context a task of the current round reads
RoundContext == IF cfg.ContextMode THEN tokenBuffer ELSE Empty

\* C29: the context buffer is mutated only by the session loop (when it
\* executes a command) and only while no generation task is in flight;
\* consequently all tasks of one generation round read the same context
\* value, equal to the buffer's content at the start of that round.
C29_BufferStableDuringRound ==
    /\ [](\A c \in calls : c.context = RoundContext)
    /\ [](Cardinality(calls) <= 1)
    /\ [][(pc = "Spawning" \/ pc = "Generated") => tokenBuffer' = tokenBuffer]_vars
    /\ [][tokenBuffer' # tokenBuffer =>
              /\ pc = "Executing"
              /\ task = NoTasks
              /\ wg = 0
              /\ sem = 0]_vars

\* in the second round of a session two tasks have read the same context, the
\* output of the command executed after the first round
C29_Witness ==
    /\ pc = "Spawning"
    /\ rounds = 2
    /\ tokenBuffer # Empty
    /\ task.started = 0
    /\ task.release + task.wgdone + task.done = 2
    /\ calls = {[prompt |-> prompt, context |-> tokenBuffer]}

IsEditor == startsWithAny(userCommand, TextEditors)
IsCd == HasPrefix(userCommand, <<"c", "d">>)

\* C30: with context mode ON, a command that begins with a known editor name
\* is run attached to the terminal (handed to sh -c, no output captured), and
\* a command that begins with cd changes the process's working directory
\* without any subshell; in both cases the context buffer is left unchanged.
\* The editor test is evaluated before the cd test, and a failed directory
\* change leaves the working directory unchanged.
C30_EditorAndCdLeaveBuffer ==
    [][(pc = "Executing" /\ cfg.ContextMode) =>
           /\ IsEditor =>
                  /\ executed' = Append(executed, userCommand)
                  /\ UNCHANGED <<tokenBuffer, output, cwd>>
           /\ (IsCd /\ ~IsEditor) =>
                  /\ UNCHANGED <<tokenBuffer, output, executed>>
                  /\ err' # NoError => cwd' = cwd
                  /\ err' = NoError =>
                         cwd' \in {cwd, TrimSpace(TrimPrefix(userCommand, <<"c", "d">>))}
           /\ pc' = "Prompting"
           /\ ret' = ret]_vars

\* a session in context mode ran an editor and then changed the directory: the
\* editor went to sh -c, cd did not, and the buffer is still empty
C30_Witness ==
    /\ cfg.ContextMode
    /\ pc = "Prompting"
    /\ executed = <<CmdVi>>
    /\ userCommand = CmdCd
    /\ err = NoError
    /\ cwd = <<"d">>
    /\ tokenBuffer = Empty

-----------------------------------------------------------------------------
(* Run: from the selection of a candidate to its execution (Spec) *)

\* Run has a final userCommand and has not handed it to the shell yet
Accepted == pc = "WritingHistory" \/ pc = "Executing"

\* C31: a selected candidate passes through Confirming before Executing
\* unless confirmation is configured off, in which case it is executed
\* unchanged with no confirmation prompt; in Confirming, text edited by the
\* user replaces the command (the plain front end trims the line and takes a
\* blank one for acceptance), and the replaced text is what is written to
\* history and executed.
C31_ConfirmThenExecuteTheEditedText ==
    /\ [][(pc = "Selecting" /\ (pc' = "Confirming" \/ Accepted')) =>
              /\ userCommand' = selection'
              /\ (pc' = "Confirming") = ~cfg.SkipConfirm]_vars
    /\ [][(~Accepted /\ Accepted') =>
              \/ pc = "Confirming"
              \/ pc = "Selecting" /\ cfg.SkipConfirm]_vars
    /\ [](cfg.SkipConfirm => (pc # "Confirming" /\ (Accepted => userCommand = selection)))
    /\ [][(pc = "Confirming" /\ Accepted') =>
              userCommand' = IF frontEnd = "plain" /\ input' = Empty
                             THEN userCommand ELSE input']_vars
    /\ [][pc = "WritingHistory" =>
              /\ pc' = "Executing"
              /\ userCommand' = userCommand
              /\ err' = NoError => history' = Append(history, HistoryEntry(shell, userCommand))]_vars
    /\ [][pc = "Executing" =>
              /\ ~cfg.ContextMode => executed' = Append(executed, userCommand)
              /\ executed' # executed => executed' = Append(executed, userCommand)
              /\ cwd' # cwd => cwd' = TrimSpace(TrimPrefix(userCommand, <<"c", "d">>))]_vars

\* a candidate was selected, the user edited it at the confirmation, and the
\* edited text, not the candidate, is in the history file and was executed
C31_Witness ==
    /\ ~cfg.SkipConfirm
    /\ selection = CmdPwd
    /\ input = CmdLs
    /\ userCommand = CmdLs
    /\ history = <<HistoryEntry(shell, userCommand)>>
    /\ executed = <<userCommand>>

\* the step reads a blank line (nothing, or white space only)
ReadsBlank == ReadSucceeds /\ TrimSpace(input') = Empty

\* C32 as it is stated: with context mode ON, after executing a command the
\* loop returns to Prompting with a freshly solicited prompt; in the promptui
\* front end a blank submission is rejected, so the next generation round
\* never runs with an empty prompt; in the plain front end a blank submission
\* is a no-op: the loop continues and the prompt is what it was.
C32_BlankIsRejectedOrNoOp ==
    /\ [][(pc = "Executing" /\ cfg.ContextMode) => pc' = "Prompting"]_vars
    /\ [][(pc = "Prompting" /\ ReadSucceeds) =>
              /\ pc' = "CallGenerate"
              /\ prompt' = IF ReadsBlank THEN prompt ELSE TrimSpace(input')
              /\ frontEnd = "promptui" => ~ReadsBlank]_vars
    /\ [](frontEnd = "promptui" => \A c \in calls : c.prompt # Empty)

\* C32, amended: with context mode ON, after executing a command the loop
\* returns to Prompting with a freshly solicited prompt, the text read with
\* the white space around it trimmed; the promptui front end rejects a blank
\* submission, so its next generation round never runs with an empty prompt;
\* the plain front end takes a blank line as the empty prompt, and the next
\* round's LLM calls are made with it.
C32_BlankIsRejectedOrTaken ==
    /\ [][(pc = "Executing" /\ cfg.ContextMode) => pc' = "Prompting"]_vars
    /\ [][(pc = "Prompting" /\ ReadSucceeds) =>
              /\ pc' = "CallGenerate"
              /\ prompt' = TrimSpace(input')
              /\ frontEnd = "promptui" => ~ReadsBlank]_vars
    /\ [](frontEnd = "promptui" => \A c \in calls : c.prompt # Empty)
    /\ []CallsUsePrompt

\* the plain front end, in context mode, executed a command, read a blank line
\* for the next prompt and called the LLM with the empty prompt
C32_Witness ==
    /\ frontEnd = "plain"
    /\ cfg.ContextMode
    /\ executed # <<>>
    /\ rounds = 2
    /\ TrimSpace(input) = Empty
    /\ prompt = Empty
    /\ \E c \in calls : c.prompt = Empty

-----------------------------------------------------------------------------
(* internal/llm called directly: GenerateShellCommand (SpecShell) *)

\* longest context a direct caller hands to GenerateShellCommand
MaxContext == 3

\* a character that UTF-8 encodes in two bytes (U+00E9), next to two of one byte
EAcute == "U+00E9"
ShellRunes == {"a", "\n", EAcute}

\* utf8.RuneLen on the characters of the model
RuneLen(r) == IF r = EAcute THEN 2 ELSE 1

\* len(s) of a Go string: its length in bytes
RECURSIVE len(_)
len(s) == IF s = <<>> THEN 0 ELSE RuneLen(Head(s)) + len(Tail(s))

\* the fixed instruction, and getPlatformInfo() on the machine of the model
Instruction == <<"You are an expert at using shell commands. [...]">>
PlatformInfo == <<" ", "The system the shell command will be executed on is Linux.">>

\* fmt.Sprintf(" Between [], these are the last %d tokens [...]: [%s]", n, context)
ContextNote(n, context) ==
    <<" Between [], these are the last ", ToString(n),
      " tokens from the previous command's output, you can use them as context: [">>
        \o context \o <<"]">>

\* GenerateShellCommand's systemPrompt
systemPrompt(context) ==
    Instruction \o PlatformInfo
        \o (IF context # Empty THEN ContextNote(len(context), context) ELSE <<>>)

\* GenerateShellCommand's userPromptWithPrefix
userPromptWithPrefix(userPrompt) ==
    <<"Generate a shell command that satisfies this user request: ">> \o userPrompt

\* the contexts of at most n characters
RECURSIVE Contexts(_)
Contexts(n) ==
    IF n = 0 THEN {<<>>}
    ELSE Contexts(n - 1)
             \cup {Append(t, c) : t \in {u \in Contexts(n - 1) : Len(u) = n - 1}, c \in ShellRunes}

InitShell ==
    /\ InitCommon
    /\ frontEnd = "plain"
    /\ cfg = [SuggestionCount |-> 0, ContextMode |-> TRUE, SkipConfirm |-> FALSE,
              SkipHistory |-> FALSE, APIProvider |-> Groq]
    /\ shell = Bash
    /\ tokenBuffer = NewContextManager
    /\ rawResponse = Empty
    /\ parseRet = NotParsed
    /\ lastCall = NoCall
    /\ httpReply \in Replies
    /\ completion = NotCalled
    /\ messages = NoMessages

\* response, err := client.GenerateShellCommand(userPrompt, context)
CallGenerateShellCommand ==
    /\ completion = NotCalled
    /\ \E userPrompt \in {PromptA, PromptB}, context \in Contexts(MaxContext) :
         /\ messages' = [system |-> systemPrompt(context),
                         user |-> userPromptWithPrefix(userPrompt)]
         /\ lastCall' = [fn |-> "GenerateShellCommand", arg |-> context, before |-> Empty,
                         result |-> Empty]
    /\ completion' = GenerateCompletion(cfg, httpReply)
    /\ requests' = requests + GenerateCompletion(cfg, httpReply).sent
    /\ UNCHANGED <<frontEnd, cfg, pc, rounds, i, sem, wg, task, suggestions, errors, genRet, calls,
                   runVars, envVars, rawResponse, parseRet, httpReply, mainVars, lockVars>>

NextShell == CallGenerateShellCommand

SpecShell == InitShell /\ [][NextShell]_vars

\* what follows the instruction and the platform description in the system
\* message, the number in it and the characters between its brackets
Note == SubSeq(messages.system, Len(Instruction \o PlatformInfo) + 1, Len(messages.system))
NoteNumber == Note[2]
NoteContext == SubSeq(Note, 4, Len(Note) - 1)

\* C33: GenerateShellCommand adds the context note to the system instruction
\* exactly when contextText is non-empty, and the number embedded in that note
\* equals the number of context characters embedded (the unit the context
\* buffer counts in); when contextText is empty the instruction contains no
\* context note.
C33_NoteCountsEmbeddedCharacters ==
    lastCall.fn = "GenerateShellCommand" =>
        /\ (Note # <<>>) = (lastCall.arg # Empty)
        /\ lastCall.arg = Empty => messages.system = Instruction \o PlatformInfo
        /\ lastCall.arg # Empty =>
               /\ NoteContext = lastCall.arg
               /\ NoteNumber = ToString(Len(NoteContext))

-----------------------------------------------------------------------------
(* internal/suggestions called directly: writeToShellHistory (SpecHistory) *)

\* most shell names in a value of $SHELL
MaxShellNames == 2

\* the history file the switch on the shell selects, under $HOME
historyFilePath(sh) ==
    IF Contains(sh, Zsh) THEN <<".zsh_history">>
    ELSE IF Contains(sh, Bash) THEN <<".bash_history">>
    ELSE IF Contains(sh, Csh) \/ Contains(sh, Tcsh) THEN <<".history">>
    ELSE IF Contains(sh, Ksh) THEN <<".sh_history">>
    ELSE IF Contains(sh, Fish) THEN <<".local/share/fish/fish_history">>
    ELSE Empty

\* the values of $SHELL: unset, or a path of at most n directory and file
\* names, each the name of a shell
ShellNames == {Zsh, Bash, Csh, Tcsh, Ksh, Fish, Dash}
RECURSIVE ShellPaths(_)
ShellPaths(n) ==
    IF n = 0 THEN {Empty}
    ELSE ShellPaths(n - 1)
             \cup {p \o <<"/">> \o name :
                      p \in {q \in ShellPaths(n - 1) :
                                Cardinality({k \in 1..Len(q) : q[k] = "/"}) = n - 1},
                      name \in ShellNames}

InitHistory ==
    /\ InitCommon
    /\ InitPackage
    /\ frontEnd = "plain"
    /\ cfg = [SuggestionCount |-> 0, ContextMode |-> FALSE, SkipConfirm |-> FALSE,
              SkipHistory |-> FALSE, APIProvider |-> Groq]
    /\ shell \in ShellPaths(MaxShellNames)
    /\ tokenBuffer = NewContextManager

\* err := writeToShellHistory(command)
CallWriteToShellHistory ==
    /\ lastCall = NoCall
    /\ \E command \in {CmdLs, CmdPwd}, e \in HistoryErrors(shell) :
         /\ history' = IF e = NoError THEN writeToShellHistory(history, shell, command)
                       ELSE history
         /\ lastCall' = [fn |-> "writeToShellHistory", arg |-> command,
                         before |-> historyFilePath(shell), result |-> e]
    /\ UNCHANGED <<frontEnd, cfg, pc, rounds, genVars, runVars, shell, tokenBuffer, executed, cwd,
                   output, rawResponse, parseRet, httpReply, completion, messages, mainVars,
                   lockVars>>

NextHistory == CallWriteToShellHistory

SpecHistory == InitHistory /\ [][NextHistory]_vars

\* the first of zsh, bash, csh/tcsh, ksh and fish that $SHELL contains
FirstMatch(sh) ==
    IF Contains(sh, Zsh) THEN Zsh
    ELSE IF Contains(sh, Bash) THEN Bash
    ELSE IF Contains(sh, Csh) \/ Contains(sh, Tcsh) THEN Csh
    ELSE IF Contains(sh, Ksh) THEN Ksh
    ELSE IF Contains(sh, Fish) THEN Fish
    ELSE Empty

\* the history file and the entry of each of the five
FileOf(name) ==
    IF name = Zsh THEN <<".zsh_history">>
    ELSE IF name = Bash THEN <<".bash_history">>
    ELSE IF name = Csh THEN <<".history">>
    ELSE IF name = Ksh THEN <<".sh_history">>
    ELSE <<".local/share/fish/fish_history">>

EntryOf(name, command) ==
    IF name = Zsh THEN <<":", " ">> \o Timestamp \o <<":", "0", ";">> \o command \o <<"\n">>
    ELSE IF name = Fish
    THEN <<"-", " ", "c", "m", "d", ":", " ">> \o command
             \o <<"\n", " ", " ", "w", "h", "e", "n", ":", " ">> \o Timestamp \o <<"\n">>
    ELSE command \o <<"\n">>

\* C34: writeToShellHistory chooses the history file and the entry format
\* from $SHELL by substring match, testing zsh, bash, csh/tcsh, ksh and fish
\* in that order and taking the first match; an empty $SHELL or one matching
\* none of them returns an error and writes nothing to any history file.
C34_FileAndEntryOfFirstMatch ==
    lastCall.fn = "writeToShellHistory" =>
        IF FirstMatch(shell) = Empty
        THEN /\ lastCall.result # NoError
             /\ history = <<>>
        ELSE /\ lastCall.before = FileOf(FirstMatch(shell))
             /\ lastCall.result = NoError =>
                    history = <<EntryOf(FirstMatch(shell), lastCall.arg)>>
             /\ lastCall.result # NoError => history = <<>>

-----------------------------------------------------------------------------
(* generateSuggestions: the semaphore and the WaitGroup (SpecGenFair) *)

\* the loop is at sem <- struct{}{} with every slot taken
LoopWaits == pc = "Spawning" /\ i < cfg.SuggestionCount /\ sem = maxWorkers

\* C35: for every requested count N >= 1, if every LLM call eventually
\* returns, generateSuggestions eventually returns: the loop's acquisitions of
\* the semaphore and the workers' releases never deadlock (whenever the loop
\* waits for a slot, a goroutine holding one is still to give it back), and at
\* return all N tasks have finished and every slot has been released.
C35_ReturnsWithEverySlotReleased ==
    /\ [](pc = "Spawning" => ENABLED NextGen)
    /\ [](LoopWaits => task.started + task.release > 0)
    /\ [](sem = task.started + task.release /\ sem <= maxWorkers)
    /\ [](wg = task.started + task.release + task.wgdone)
    /\ (pc = "Spawning" /\ cfg.SuggestionCount >= 1) ~> (pc = "Generated")
    /\ [](pc = "Generated" =>
              /\ i = cfg.SuggestionCount
              /\ task = [NoTasks EXCEPT !.done = cfg.SuggestionCount]
              /\ wg = 0
              /\ sem = 0)

\* a round of one task more than there are slots has returned: the loop had to
\* take a slot a fifth time, all five tasks are done and no slot is taken
C35_Witness ==
    /\ pc = "Generated"
    /\ cfg.SuggestionCount = WorkerLimit + 1
    /\ task.done = WorkerLimit + 1
    /\ sem = 0
    /\ wg = 0
    /\ Len(suggestions) + Len(errors) = WorkerLimit + 1

-----------------------------------------------------------------------------
(* Run and generateSuggestions: a round that yields nothing (Spec) *)

\* the menu of a front end when there is no candidate
SystemOptionsOnly ==
    IF frontEnd = "plain" THEN <<OptGenSuggestions, OptNewCommand, OptDismiss>>
    ELSE <<OptDismiss>>

\* C36: when no task of a round records an error and no task yields a
\* non-empty command (every response parses to an empty command, or N = 0 so
\* no LLM call is made), generateSuggestions returns successfully with an
\* empty list, and the session proceeds to Selecting with only system options
\* offered.
C36_EmptyRoundOffersSystemOptions ==
    /\ [][(pc = "Spawning" /\ pc' = "Generated" /\ errors = <<>> /\ suggestions = <<>>) =>
              genRet' = [err |-> NoError, list |-> <<>>]]_vars
    /\ [][(pc = "Generated" /\ errors = <<>> /\ suggestions = <<>>) =>
              /\ pc' = "Selecting"
              /\ options' = SystemOptionsOnly
              /\ ret' = ret]_vars
    /\ [](cfg.SuggestionCount = 0 => (requests = 0 /\ calls = {}))
    /\ [](cfg.SuggestionCount = 0 /\ pc = "Generated" => errors = <<>> /\ suggestions = <<>>)

\* every task of a round got an answer with an empty command: no error, no
\* candidate, and the menu holds the system options alone
C36_Witness ==
    /\ pc = "Selecting"
    /\ rounds = 1
    /\ cfg.SuggestionCount = MaxSessionCount
    /\ requests = MaxSessionCount
    /\ options = SystemOptionsOnly
    /\ ret = NotReturned

-----------------------------------------------------------------------------
(* Run, plain front end: a selection that is no number of the menu (Spec) *)

\* the line is an integer: digits and nothing else
IsInteger(line) == line # <<>> /\ \A k \in 1..Len(line) : IsDigitChar(line[k])

\* the line is an integer in 1..len(options)
NumberOfTheMenu(line) ==
    /\ IsInteger(line)
    /\ ScanInt(line, 0) >= 1
    /\ ScanInt(line, 0) <= Len(options)

\* C37: in the plain front end, a selection that is not an integer in
\* 1..len(options) executes nothing, writes no history and leaves the prompt
\* and the context buffer unchanged, and the loop re-enters Generating, so a
\* fresh round of N LLM calls is issued with the same prompt before the menu
\* is shown again.
C37_InvalidSelectionRegenerates ==
    /\ [][(pc = "Selecting" /\ frontEnd = "plain" /\ ReadSucceeds
               /\ ~NumberOfTheMenu(input')) =>
              /\ pc' = "CallGenerate"
              /\ UNCHANGED <<prompt, tokenBuffer, executed, history, cwd, ret, menus, requests>>]_vars
    /\ [][pc = "CallGenerate" =>
              /\ pc' = "Spawning"
              /\ UNCHANGED <<prompt, tokenBuffer, menus>>]_vars
    /\ []CallsUsePrompt
    /\ [][(pc = "Generated" /\ pc' = "Selecting") =>
              /\ task.done = cfg.SuggestionCount
              /\ menus' = menus + 1]_vars

-----------------------------------------------------------------------------
(* main and GenerateCompletion: the key a request carries (SpecMain) *)

\* GenerateCompletion's apiKey: the key of the case of the switch on the provider
apiKey(config) ==
    IF config.APIProvider = OpenAI THEN config.OpenAIAPIKey
    ELSE IF config.APIProvider = Groq THEN config.GroqAPIKey
    ELSE Empty

\* the Authorization header of the request GenerateCompletion builds
Authorization(config) == <<"Bearer ">> \o apiKey(config)

\* C38: once the startup credential check has passed, every chat-completion
\* request that is sent carries a non-empty bearer key belonging to the
\* selected provider (the OpenAI key when the provider is "openai", the Groq
\* key when it is "groq").
C38_RequestsCarryProvidersKey ==
    [][requests' # requests =>
           /\ cfg.APIProvider \in Providers
           /\ Authorization(cfg) # <<"Bearer ">>
           /\ cfg.APIProvider = OpenAI => Authorization(cfg) = <<"Bearer ">> \o cfg.OpenAIAPIKey
           /\ cfg.APIProvider = Groq => Authorization(cfg) = <<"Bearer ">> \o cfg.GroqAPIKey]_vars

=============================================================================
